---- MODULE Spec2Model ----
(***************************************************************************)
(* A model of the dwrs download engine: the chunk planner, the range       *)
(* fetcher (download_chunk), the merger (merge_parts), the sequential      *)
(* path (download_optimized), the retry loop of Downloader::download_file  *)
(* and the batch orchestrator Downloader::download_multiple.               *)
(*                                                                         *)
(* File contents are sequences of runs <<src, lo, hi>>: the bytes lo..hi-1 *)
(* of the resource behind url src, or hi-lo zero bytes when src = 0.       *)
(***************************************************************************)
EXTENDS Integers, Sequences, FiniteSets, TLC

\* ------------------------------------------------------------------ bounds

\* SpecPlan: total sizes go up to PlanUnits * MIN_CHUNK_SIZE (plus a remainder)
PlanUnits == 4
\* SpecPlan: requested worker counts are 1..PlanWorkers
PlanWorkers == 5

\* ------------------------------------------------------- program constants

DEFAULT_BUFFER_SIZE == 262144

STREAM_CHUNK_SIZE == 65536

MIN_CHUNK_SIZE == 2097152

\* ------------------------------------------------------------- arithmetic

Min(a, b) == IF a <= b THEN a ELSE b

Max(a, b) == IF a >= b THEN a ELSE b

\* u64::div_ceil
DivCeil(a, b) == (a + b - 1) \div b

\* ---------------------------------------------------------- file contents

\* a run <<src, lo, hi>> holds hi - lo bytes
RunLen(r) == r[3] - r[2]

RECURSIVE DataLen(_)
DataLen(d) == IF d = <<>> THEN 0 ELSE RunLen(Head(d)) + DataLen(Tail(d))

\* r followed by q is one run: consecutive bytes of one resource, or zeros
Joins(r, q) ==
    /\ r[1] = q[1]
    /\ IF r[1] = 0 THEN TRUE ELSE r[3] = q[2]

JoinRuns(r, q) == IF r[1] = 0 THEN <<0, 0, RunLen(r) + RunLen(q)>> ELSE <<r[1], r[2], q[3]>>

\* d (in normal form) followed by the run r
AddRun(d, r) ==
    IF RunLen(r) <= 0 THEN d
    ELSE IF d # <<>> /\ Joins(d[Len(d)], r)
         THEN [d EXCEPT ![Len(d)] = JoinRuns(d[Len(d)], r)]
         ELSE Append(d, r)

\* d followed by e, byte for byte
RECURSIVE Cat(_, _)
Cat(d, e) == IF e = <<>> THEN d ELSE Cat(AddRun(d, Head(e)), Tail(e))

\* the first n bytes of d
RECURSIVE TakeBytes(_, _)
TakeBytes(d, n) ==
    IF n <= 0 \/ d = <<>> THEN <<>>
    ELSE LET r == Head(d)
         IN  IF RunLen(r) <= n
             THEN Cat(<<r>>, TakeBytes(Tail(d), n - RunLen(r)))
             ELSE <<IF r[1] = 0 THEN <<0, 0, n>> ELSE <<r[1], r[2], r[2] + n>>>>

\* d without its first n bytes
RECURSIVE DropBytes(_, _)
DropBytes(d, n) ==
    IF d = <<>> THEN <<>>
    ELSE IF n <= 0 THEN d
    ELSE LET r == Head(d)
         IN  IF RunLen(r) <= n
             THEN DropBytes(Tail(d), n - RunLen(r))
             ELSE Cat(<<IF r[1] = 0 THEN <<0, 0, RunLen(r) - n>> ELSE <<r[1], r[2] + n, r[3]>>>>,
                      Tail(d))

Zeros(n) == IF n <= 0 THEN <<>> ELSE <<<<0, 0, n>>>>

\* a write of e at byte offset off of a file holding d (a hole reads as zeros)
WriteAt(d, off, e) ==
    IF off >= DataLen(d)
    THEN Cat(Cat(d, Zeros(off - DataLen(d))), e)
    ELSE Cat(Cat(TakeBytes(d, off), e), DropBytes(d, off + DataLen(e)))

\* File::set_len: cut, or extend with zeros
SetLen(d, n) == IF n <= DataLen(d) THEN TakeBytes(d, n) ELSE Cat(d, Zeros(n - DataLen(d)))

\* the bytes lo..hi-1 of the resource behind url u
Bytes(u, lo, hi) == IF hi <= lo THEN <<>> ELSE <<<<u, lo, hi>>>>

\* ---------------------------------------------------------- chunk planner

OptimalWorkers_NoClamp(total, workers) == Max(1, total \div MIN_CHUNK_SIZE)

\* download_parallel: min(workers, max(1, total_size / MIN_CHUNK_SIZE))
OptimalWorkers(total, workers) == Min(workers, Max(1, total \div MIN_CHUNK_SIZE))

ChunkSize_Floor(total, workers) == Max(1, total \div OptimalWorkers(total, workers))

\* download_parallel: total_size.div_ceil(optimal_workers)
ChunkSize(total, workers) == DivCeil(total, OptimalWorkers(total, workers))

\* let start = i * chunk_size
ChunkStart(i, total, workers) == i * ChunkSize(total, workers)

ChunkEnd_NoClamp(i, total, workers) ==
    ChunkStart(i, total, workers) + ChunkSize(total, workers) - 1

\* let end = min(start + chunk_size - 1, total_size - 1)
ChunkEnd(i, total, workers) ==
    Min(ChunkStart(i, total, workers) + ChunkSize(total, workers) - 1, total - 1)

\* the chunks the spawn loop emits for i in 0..n-1, empty ranges skipped
RECURSIVE PlannedChunks(_, _, _)
PlannedChunks(n, total, workers) ==
    IF n = 0 THEN <<>>
    ELSE LET i == n - 1
             s == ChunkStart(i, total, workers)
             e == ChunkEnd(i, total, workers)
             before == PlannedChunks(n - 1, total, workers)
         IN  IF s > e THEN before
             ELSE Append(before, [index |-> i, start |-> s, end |-> e])

\* --------------------------------------------------------------- variables

VARIABLES
    planner,    \* SpecPlan: the spawn loop of download_parallel on its own
    cfg,        \* DownloadConfig
    env,        \* the batch (url, output_path) pairs and what each url serves
    disk,       \* the file system: path -> [exists, data, gen]
    eng,        \* per job: the position of download::download_file and its locals
    ctask,      \* the spawned download_chunk tasks, by <<job, attempt, index>>
    prog,       \* per job: the ProgressBar and the shared AtomicU64
    net,        \* requests sent so far, and the faults the environment injected
    rc,         \* the retry loop of Downloader::download_file
    orch        \* Downloader::download_multiple: its loop, permits, channel, tasks

vars == <<planner, cfg, env, disk, eng, ctask, prog, net, rc, orch>>

\* ------------------------------------------------------------ more bounds

\* the batch holds at most MaxFiles downloads
MaxFiles == 2
\* config.workers is drawn from 1..MaxWorkers
MaxWorkers == 2
\* config.retries is drawn from 0..MaxRetries
MaxRetries == 3
\* a response body arrives in at most MaxPieces pieces
MaxPieces == 2
\* SpecAttempt: the environment fails at most AttemptFaults requests, streams
\* or file operations
AttemptFaults == 1
\* Spec: the same, for each run of Downloader::download_file
RetryFaults == 2
\* SpecBatch: the same, for the whole batch
BatchFaults == 2
\* SpecRetry2: the same, for the two attempts together
Retry2Faults == 2
\* SpecPaths: the same
PathFaults == 1
\* SpecPermits: config.workers is drawn from 0..PermitWorkers
PermitWorkers == 20

\* ------------------------------------------------------------ environment

\* DownloadConfig::default().min_parallel_size
DefaultMinParallel == 5242880

\* a resource far below MIN_CHUNK_SIZE: SmallSize bytes
SmallSize == 3

\* a resource of two minimum chunks and one byte: two chunks of unequal length
BigSize == 2 * MIN_CHUNK_SIZE + 1

JobIds == 1..MaxFiles

Attempts == 0..Max(MaxRetries - 1, 0)

ChunkIdx == 0..(MaxWorkers - 1)

TaskIds == JobIds \X Attempts \X ChunkIdx

OutPaths == {<<"a", "txt", 0>>, <<"a", "zip", 0>>, <<"b", "txt", 0>>}

\* output.with_extension(format!("part{}", i)): the extension is replaced
TmpPath(out, i) == <<out[1], "part", i>>

Paths == OutPaths \cup {TmpPath(o, i) : o \in OutPaths, i \in ChunkIdx}

NoFile == [exists |-> FALSE, data |-> <<>>, gen |-> 0]

\* what the servers can be: a size, byte-range support, a Content-Length header
Servers ==
    { [size |-> SmallSize, ranges |-> TRUE, hasCL |-> TRUE],
      [size |-> SmallSize, ranges |-> FALSE, hasCL |-> TRUE],
      [size |-> SmallSize, ranges |-> TRUE, hasCL |-> FALSE],
      [size |-> 0, ranges |-> TRUE, hasCL |-> TRUE],
      [size |-> BigSize, ranges |-> TRUE, hasCL |-> TRUE] }

Url(j) == env.jobs[j].url

Out(j) == env.jobs[j].out

Server(j) == env.server[Url(j)]

\* the whole resource of job j
Resource(j) == Bytes(Url(j), 0, Server(j).size)

\* HEAD: Content-Length parsed, or 0 without one
ReportedSize(j) == IF Server(j).hasCL THEN Server(j).size ELSE 0

\* the body a GET with `Range: bytes=from-to` is answered with (to = -1: open end)
RangeBody(j, from, to) ==
    IF Server(j).ranges
    THEN [lo |-> Min(from, Server(j).size),
          hi |-> IF to < 0 THEN Server(j).size ELSE Min(to + 1, Server(j).size)]
    ELSE [lo |-> 0, hi |-> Server(j).size]

\* the body of a GET without a Range header
FullBody(j) == [lo |-> 0, hi |-> Server(j).size]

\* ------------------------------------------------------------ file handles

NoHandle == [path |-> <<"a", "txt", 0>>, append |-> FALSE, off |-> 0, gen |-> 0]

Exists(d, p) == d[p].exists

FileLen(d, p) == DataLen(d[p].data)

\* fs::remove_file(..).ok(): the path goes, open handles keep the old file
RemoveFile(d, p) ==
    IF d[p].exists THEN [d EXCEPT ![p] = [exists |-> FALSE, data |-> <<>>, gen |-> @.gen + 1]]
    ELSE d

CreateFile_NoTruncate(d, p) == [d EXCEPT ![p].exists = TRUE]

\* fs::File::create: a new empty file, or the existing one cut to length 0
CreateFile(d, p) == [d EXCEPT ![p] = [exists |-> TRUE, data |-> <<>>, gen |-> @.gen]]

OpenHandle(d, p, app) == [path |-> p, append |-> app, off |-> 0, gen |-> d[p].gen]

\* write_all through handle h: at the end in append mode, else at h's offset;
\* a handle whose file was removed writes to a file no path names
WriteFile(d, h, data) ==
    IF ~d[h.path].exists \/ d[h.path].gen # h.gen THEN d
    ELSE [d EXCEPT ![h.path].data =
             IF h.append THEN Cat(@, data) ELSE WriteAt(@, h.off, data)]

Advance(h, data) == [h EXCEPT !.off = @ + DataLen(data)]

\* BufWriter::with_capacity(buffer_size, file) of download_optimized
SeqCapacity == cfg.buffer_size

\* BufWriter::with_capacity(min(buffer_size / 4, STREAM_CHUNK_SIZE * 4), file)
ChunkCapacity == Min(cfg.buffer_size \div 4, STREAM_CHUNK_SIZE * 4)

BufWrite_NeverThrough(buf, piece, cap) == [out |-> <<>>, buf |-> <<>>]

\* BufWriter::write_all(piece): what reaches the file (out) and what stays
\* in the buffer (buf). A piece that does not fit flushes the buffer first; a
\* piece of at least the capacity goes to the file directly
BufWrite(buf, piece, cap) ==
    LET spill == DataLen(buf) + DataLen(piece) > cap
        flushed == IF spill THEN buf ELSE <<>>
        kept == IF spill THEN <<>> ELSE buf
    IN  IF DataLen(piece) >= cap
        THEN [out |-> Cat(flushed, piece), buf |-> kept]
        ELSE [out |-> flushed, buf |-> Cat(kept, piece)]

\* the sizes the next piece of a body with `left` bytes to come can have
PieceChoices(left, pieces) ==
    IF pieces + 1 >= MaxPieces THEN {left}
    ELSE {left} \cup {n \in {1, left \div 2} : 0 < n /\ n < left}

\* ------------------------------------------- download::download_file (head)

IdleEng ==
    [pc |-> "idle", attempt |-> 0, result |-> "none", total |-> 0, parallel |-> FALSE,
     i |-> 0, handles |-> <<>>, finished |-> <<>>, k |-> 1, start_byte |-> 0, downloaded |-> 0,
     lo |-> 0, left |-> 0, buf |-> <<>>, w |-> NoHandle, pieces |-> 0, agets |-> 0,
     snap |-> <<>>, range_from |-> -1, merged |-> 0]

NoTask ==
    [st |-> "none", start |-> 0, end |-> 0, had |-> 0, cur |-> 0, lo |-> 0, left |-> 0,
     buf |-> <<>>, w |-> NoHandle, pieces |-> 0, pend |-> 0, ngets |-> 0]

NoProg == [len |-> 0, pos |-> 0, counter |-> 0]

\* the call of download::download_file for job j, as attempt a
StartEng(a) == [IdleEng EXCEPT !.pc = "head", !.attempt = a]

\* the function returns r: its locals are dropped (a BufWriter does not flush)
Finish(e, r) ==
    [IdleEng EXCEPT !.pc = "done", !.attempt = e.attempt, !.result = r, !.total = e.total,
                    !.parallel = e.parallel, !.agets = e.agets, !.finished = e.finished,
                    !.snap = e.snap, !.range_from = e.range_from,
                    !.merged = e.merged]

CanFail == net.faults < net.budget

Fault(n) == [n EXCEPT !.faults = @ + 1]

CountHead(n, j) == [n EXCEPT !.heads[j] = @ + 1]

CountGet(n, j) == [n EXCEPT !.gets[j] = @ + 1]

UseParallel_AtThreshold(j, total) ==
    Server(j).ranges /\ total >= cfg.min_parallel /\ cfg.workers > 1

\* accept_ranges == "bytes" && total_size > min_parallel_size && workers > 1
UseParallel(j, total) ==
    Server(j).ranges /\ total > cfg.min_parallel /\ cfg.workers > 1

EngHeadFail_Truncates(j) ==
    /\ eng[j].pc = "head"
    /\ CanFail
    /\ net' = Fault(CountHead(net, j))
    /\ eng' = [eng EXCEPT ![j] = Finish(@, "connect")]
    /\ disk' = CreateFile(disk, Out(j))
    /\ UNCHANGED <<planner, cfg, env, rc, orch, ctask, prog>>

\* client.head(url).send() fails: Err("Failed to connect")
EngHeadFail(j) ==
    /\ eng[j].pc = "head"
    /\ CanFail
    /\ net' = Fault(CountHead(net, j))
    /\ eng' = [eng EXCEPT ![j] = Finish(@, "connect")]
    /\ UNCHANGED <<planner, cfg, env, rc, orch, disk, ctask, prog>>

\* the HEAD is answered: total_size, accept_ranges, pb.set_length, the path taken
EngHeadOk(j) ==
    /\ eng[j].pc = "head"
    /\ net' = CountHead(net, j)
    /\ LET total == ReportedSize(j)
           par == UseParallel(j, total)
       IN  /\ eng' = [eng EXCEPT ![j].total = total, ![j].parallel = par,
                                 ![j].pc = IF par THEN "par_spawn" ELSE "seq_check"]
           /\ prog' = [prog EXCEPT ![j].len = total]
    /\ UNCHANGED <<planner, cfg, env, rc, orch, disk, ctask>>

\* ------------------------------------------------------ download_optimized

SeqAlreadyComplete_Never(existing, total) == FALSE

\* existing == total_size: "File already complete"
SeqAlreadyComplete(existing, total) == existing = total

\* the resume check on the output file
SeqCheck(j) ==
    /\ eng[j].pc = "seq_check"
    /\ LET existing == FileLen(disk, Out(j))
           total == eng[j].total
       IN  IF cfg.resume /\ Exists(disk, Out(j))
           THEN IF existing < total
                THEN /\ eng' = [eng EXCEPT ![j].pc = "seq_get", ![j].start_byte = existing]
                     /\ prog' = [prog EXCEPT ![j].pos = existing]
                     /\ disk' = disk
                ELSE IF SeqAlreadyComplete(existing, total)
                THEN /\ eng' = [eng EXCEPT ![j] = Finish(@, "ok")]
                     /\ prog' = [prog EXCEPT ![j].pos = prog[j].len]
                     /\ disk' = disk
                ELSE /\ eng' = [eng EXCEPT ![j].pc = "seq_get"]
                     /\ disk' = RemoveFile(disk, Out(j))
                     /\ prog' = prog
           ELSE /\ eng' = [eng EXCEPT ![j].pc = "seq_get"]
                /\ UNCHANGED <<prog, disk>>
    /\ UNCHANGED <<planner, cfg, env, rc, orch, ctask, net>>

RangeHeader_Never(start_byte) == -1

\* the Range header of the GET of download_optimized: `bytes=start_byte-` if
\* start_byte > 0, none (-1) otherwise
RangeHeader(start_byte) == IF start_byte > 0 THEN start_byte ELSE -1

\* request.send().await?.error_for_status()? fails
SeqGetFail(j) ==
    /\ eng[j].pc = "seq_get"
    /\ CanFail
    /\ net' = Fault(CountGet(net, j))
    /\ eng' = [eng EXCEPT ![j] = Finish([@ EXCEPT !.agets = @ + 1,
                                                  !.range_from = RangeHeader(eng[j].start_byte)],
                                         "http")]
    /\ UNCHANGED <<planner, cfg, env, rc, orch, disk, ctask, prog>>

\* the GET is answered; a Range header goes with it only if start_byte > 0
SeqGetOk(j) ==
    /\ eng[j].pc = "seq_get"
    /\ net' = CountGet(net, j)
    /\ LET from == RangeHeader(eng[j].start_byte)
           body == IF from >= 0 THEN RangeBody(j, from, -1) ELSE FullBody(j)
       IN  eng' = [eng EXCEPT ![j].pc = "seq_open", ![j].agets = @ + 1,
                              ![j].range_from = RangeHeader(eng[j].start_byte),
                              ![j].lo = body.lo, ![j].left = body.hi - body.lo]
    /\ UNCHANGED <<planner, cfg, env, rc, orch, disk, ctask, prog>>

\* the output file is opened for append, or created (truncated)
SeqOpen(j) ==
    /\ eng[j].pc = "seq_open"
    /\ IF cfg.resume /\ eng[j].start_byte > 0
       THEN IF Exists(disk, Out(j))
            THEN /\ eng' = [eng EXCEPT ![j].pc = "seq_stream",
                                       ![j].w = OpenHandle(disk, Out(j), TRUE),
                                       ![j].downloaded = eng[j].start_byte]
                 /\ disk' = disk
            ELSE /\ eng' = [eng EXCEPT ![j] = Finish(@, "io")]
                 /\ disk' = disk
       ELSE /\ disk' = CreateFile(disk, Out(j))
            /\ eng' = [eng EXCEPT ![j].pc = "seq_stream",
                                  ![j].w = OpenHandle(disk, Out(j), FALSE),
                                  ![j].downloaded = eng[j].start_byte]
    /\ UNCHANGED <<planner, cfg, env, rc, orch, ctask, prog, net>>

\* one piece of the body: write_all into the BufWriter, downloaded += len,
\* pb.set_position(downloaded)
SeqRecv(j) ==
    /\ eng[j].pc = "seq_stream"
    /\ eng[j].left > 0
    /\ \E n \in PieceChoices(eng[j].left, eng[j].pieces) :
         LET piece == Bytes(Url(j), eng[j].lo, eng[j].lo + n)
             bw == BufWrite(eng[j].buf, piece, SeqCapacity)
         IN  /\ disk' = WriteFile(disk, eng[j].w, bw.out)
             /\ eng' = [eng EXCEPT ![j].lo = @ + n, ![j].left = @ - n,
                                   ![j].pieces = @ + 1,
                                   ![j].downloaded = @ + n,
                                   ![j].buf = bw.buf,
                                   ![j].w = Advance(@, bw.out)]
             /\ prog' = [prog EXCEPT ![j].pos = eng[j].downloaded + n]
    /\ UNCHANGED <<planner, cfg, env, rc, orch, ctask, net>>

\* the stream (or a write) fails: the function returns, what is buffered is lost
SeqFail(j) ==
    /\ eng[j].pc = "seq_stream"
    /\ CanFail
    /\ net' = Fault(net)
    /\ eng' = [eng EXCEPT ![j] = Finish(@, "stream")]
    /\ UNCHANGED <<planner, cfg, env, rc, orch, disk, ctask, prog>>

Flush_Forgotten(buf) == <<>>

\* writer.flush(): what the BufWriter still holds goes to the file
Flush(buf) == buf

\* the stream ends: writer.flush(), pb.finish(), Ok
SeqEnd(j) ==
    /\ eng[j].pc = "seq_stream"
    /\ eng[j].left = 0
    /\ disk' = WriteFile(disk, eng[j].w, Flush(eng[j].buf))
    /\ eng' = [eng EXCEPT ![j] = Finish(@, "ok")]
    /\ prog' = [prog EXCEPT ![j].pos = prog[j].len]
    /\ UNCHANGED <<planner, cfg, env, rc, orch, ctask, net>>

\* ------------------------------------------------------- download_parallel

TaskOf(j, i) == <<j, eng[j].attempt, i>>

\* one iteration of the spawn loop: chunk i gets its task, unless it is empty
ParSpawn(j) ==
    /\ eng[j].pc = "par_spawn"
    /\ LET i == eng[j].i
           s == ChunkStart(i, eng[j].total, cfg.workers)
           e == ChunkEnd(i, eng[j].total, cfg.workers)
           last == i + 1 >= OptimalWorkers(eng[j].total, cfg.workers)
       IN  /\ eng' = [eng EXCEPT ![j].i = i + 1,
                                 ![j].handles = IF s > e THEN @ ELSE Append(@, i),
                                 ![j].pc = IF last THEN "par_join" ELSE "par_spawn"]
           /\ ctask' = IF s > e THEN ctask
                       ELSE [ctask EXCEPT ![TaskOf(j, i)] =
                                [NoTask EXCEPT !.st = "check", !.start = s, !.end = e,
                                               !.cur = s]]
    /\ UNCHANGED <<planner, cfg, env, rc, orch, disk, prog, net>>

\* handle.await of the next handle, in spawn order: Ok(Ok(path))
ParJoinOk(j) ==
    /\ eng[j].pc = "par_join"
    /\ eng[j].k <= Len(eng[j].handles)
    /\ ctask[TaskOf(j, eng[j].handles[eng[j].k])].st = "ok"
    /\ eng' = [eng EXCEPT ![j].k = @ + 1]
    /\ UNCHANGED <<planner, cfg, env, rc, orch, disk, ctask, prog, net>>

ParJoinErr_GoesOn(j) ==
    /\ eng[j].pc = "par_join"
    /\ eng[j].k <= Len(eng[j].handles)
    /\ ctask[TaskOf(j, eng[j].handles[eng[j].k])].st = "err"
    /\ eng' = [eng EXCEPT ![j].k = @ + 1]
    /\ UNCHANGED <<planner, cfg, env, rc, orch, disk, ctask, prog, net>>

\* handle.await gives Ok(Err(e)): return at once, the later handles are dropped
\* (a dropped JoinHandle detaches its task, which keeps running)
ParJoinErr(j) ==
    /\ eng[j].pc = "par_join"
    /\ eng[j].k <= Len(eng[j].handles)
    /\ ctask[TaskOf(j, eng[j].handles[eng[j].k])].st = "err"
    /\ eng' = [eng EXCEPT ![j] = Finish(@, "chunk")]
    /\ UNCHANGED <<planner, cfg, env, rc, orch, disk, ctask, prog, net>>

\* ------------------------------------------------------------- merge_parts

MergeOrder_Completion(h, finished) == finished

\* parts.sort_by_key(|(i, _)| *i): the handles h were joined in spawn order,
\* whatever the order the tasks finished in
MergeOrder(h, finished) == h

\* the temp files of the chunks in h, one after the other
RECURSIVE PartsData(_, _, _)
PartsData(d, out, h) ==
    IF h = <<>> THEN <<>> ELSE Cat(d[TmpPath(out, Head(h))].data, PartsData(d, out, Tail(h)))

\* File::create(output) and set_len(total_size)
MergeCreate(j) ==
    /\ eng[j].pc = "par_join"
    /\ eng[j].k > Len(eng[j].handles)
    /\ disk' = [CreateFile(disk, Out(j)) EXCEPT ![Out(j)].data = Zeros(eng[j].total)]
    /\ eng' = [eng EXCEPT ![j].pc = "merge", ![j].k = 1,
                          ![j].handles = MergeOrder(@, eng[j].finished),
                          ![j].snap = PartsData(disk, Out(j), eng[j].handles),
                          ![j].w = OpenHandle(disk, Out(j), FALSE)]
    /\ UNCHANGED <<planner, cfg, env, rc, orch, ctask, prog, net>>

\* the next part is copied to the output and removed; a part that is not there
\* makes File::open fail
MergePart(j) ==
    /\ eng[j].pc = "merge"
    /\ eng[j].k <= Len(eng[j].handles)
    /\ LET part == TmpPath(Out(j), eng[j].handles[eng[j].k])
       IN  IF Exists(disk, part)
           THEN /\ disk' = RemoveFile(WriteFile(disk, eng[j].w, disk[part].data), part)
                /\ eng' = [eng EXCEPT ![j].k = @ + 1, ![j].merged = @ + 1,
                                      ![j].w = Advance(@, disk[part].data)]
           ELSE /\ eng' = [eng EXCEPT ![j] = Finish(@, "io")]
                /\ disk' = disk
    /\ UNCHANGED <<planner, cfg, env, rc, orch, ctask, prog, net>>

\* reading the next part or writing the output fails
MergeFail(j) ==
    /\ eng[j].pc = "merge"
    /\ eng[j].k <= Len(eng[j].handles)
    /\ CanFail
    /\ net' = Fault(net)
    /\ eng' = [eng EXCEPT ![j] = Finish(@, "io")]
    /\ UNCHANGED <<planner, cfg, env, rc, orch, disk, ctask, prog>>

\* every part is merged: sync_all, pb.finish(), Ok
MergeEnd(j) ==
    /\ eng[j].pc = "merge"
    /\ eng[j].k > Len(eng[j].handles)
    /\ eng' = [eng EXCEPT ![j] = Finish(@, "ok")]
    /\ prog' = [prog EXCEPT ![j].pos = prog[j].len]
    /\ UNCHANGED <<planner, cfg, env, rc, orch, disk, ctask, net>>

\* ---------------------------------------------------------- download_chunk

Tmp(t) == TmpPath(Out(t[1]), t[3])

\* the task's future resolves; the attempt that spawned it notes the order
Resolve(e, t) ==
    IF e.attempt = t[2] /\ e.pc \in {"par_spawn", "par_join"}
    THEN [e EXCEPT !.finished = Append(@, t[3])] ELSE e

\* a GET of task t counts for the attempt that spawned t, while it runs
CountAttemptGet(e, t) ==
    IF e.attempt = t[2] /\ e.pc # "done" /\ e.pc # "idle"
    THEN [e EXCEPT !.agets = @ + 1] ELSE e

\* task t holds the ProgressBar and the counter of the attempt job t[1] is in;
\* a task of an earlier attempt holds those of that attempt, which nobody shows
OwnsBar(t) == eng[t[1]].attempt = t[2]

ResumeFrom_Restart(start, existing) == start

\* current_start = start + existing
ResumeFrom(start, existing) == start + existing

\* the resume check on the temp file
CkCheck(t) ==
    /\ ctask[t].st = "check"
    /\ LET existing == FileLen(disk, Tmp(t))
           chunk_size == ctask[t].end - ctask[t].start + 1
       IN  IF cfg.resume /\ Exists(disk, Tmp(t))
           THEN IF existing > 0 /\ existing < chunk_size
                THEN /\ ctask' = [ctask EXCEPT ![t].st = "get", ![t].had = existing,
                                      ![t].cur = ResumeFrom(ctask[t].start, existing)]
                     /\ UNCHANGED <<disk, eng>>
                ELSE IF existing >= chunk_size
                THEN /\ ctask' = [ctask EXCEPT ![t].st = "ok", ![t].had = existing]
                     /\ eng' = [eng EXCEPT ![t[1]] = Resolve(@, t)]
                     /\ disk' = disk
                ELSE /\ ctask' = [ctask EXCEPT ![t].st = "get"]
                     /\ disk' = RemoveFile(disk, Tmp(t))
                     /\ eng' = eng
           ELSE /\ ctask' = [ctask EXCEPT ![t].st = "get"]
                /\ UNCHANGED <<disk, eng>>
    /\ UNCHANGED <<planner, cfg, env, rc, orch, prog, net>>

CkGetFail_TriesAgain(t) ==
    /\ ctask[t].st = "get"
    /\ CanFail
    /\ net' = Fault(CountGet(net, t[1]))
    /\ ctask' = [ctask EXCEPT ![t].ngets = @ + 1]
    /\ eng' = [eng EXCEPT ![t[1]] = CountAttemptGet(@, t)]
    /\ UNCHANGED <<planner, cfg, env, rc, orch, disk, prog>>

\* the ranged GET fails to send or is answered with an error status
CkGetFail(t) ==
    /\ ctask[t].st = "get"
    /\ CanFail
    /\ net' = Fault(CountGet(net, t[1]))
    /\ ctask' = [ctask EXCEPT ![t] = [NoTask EXCEPT !.st = "err", !.start = ctask[t].start,
                     !.end = ctask[t].end, !.had = ctask[t].had, !.cur = ctask[t].cur,
                     !.ngets = ctask[t].ngets + 1]]
    /\ eng' = [eng EXCEPT ![t[1]] = Resolve(CountAttemptGet(@, t), t)]
    /\ UNCHANGED <<planner, cfg, env, rc, orch, disk, prog>>

\* GET with Range: bytes=current_start-end is answered
CkGetOk(t) ==
    /\ ctask[t].st = "get"
    /\ net' = CountGet(net, t[1])
    /\ LET body == RangeBody(t[1], ctask[t].cur, ctask[t].end)
       IN  ctask' = [ctask EXCEPT ![t].st = "open", ![t].ngets = @ + 1,
                                  ![t].lo = body.lo, ![t].left = body.hi - body.lo]
    /\ eng' = [eng EXCEPT ![t[1]] = CountAttemptGet(@, t)]
    /\ UNCHANGED <<planner, cfg, env, rc, orch, disk, prog>>

\* the temp file is opened for append when resuming, else created (truncated)
CkOpen(t) ==
    /\ ctask[t].st = "open"
    /\ IF cfg.resume /\ ctask[t].cur > ctask[t].start /\ Exists(disk, Tmp(t))
       THEN /\ ctask' = [ctask EXCEPT ![t].st = "stream",
                                      ![t].w = OpenHandle(disk, Tmp(t), TRUE)]
            /\ disk' = disk
       ELSE /\ disk' = CreateFile(disk, Tmp(t))
            /\ ctask' = [ctask EXCEPT ![t].st = "stream",
                                      ![t].w = OpenHandle(disk, Tmp(t), FALSE)]
    /\ UNCHANGED <<planner, cfg, env, rc, orch, eng, prog, net>>

\* one piece of the body: write_all into the BufWriter, then
\* prev = progress.fetch_add(len); the position is set in a later step
CkRecv(t) ==
    /\ ctask[t].st = "stream"
    /\ ctask[t].left > 0
    /\ \E n \in PieceChoices(ctask[t].left, ctask[t].pieces) :
         LET piece == Bytes(Url(t[1]), ctask[t].lo, ctask[t].lo + n)
             bw == BufWrite(ctask[t].buf, piece, ChunkCapacity)
         IN  /\ disk' = WriteFile(disk, ctask[t].w, bw.out)
             /\ ctask' = [ctask EXCEPT ![t].st = "setpos",
                                       ![t].lo = @ + n, ![t].left = @ - n,
                                       ![t].pieces = @ + 1,
                                       ![t].buf = bw.buf,
                                       ![t].w = Advance(@, bw.out),
                                       ![t].pend = prog[t[1]].counter + n]
             /\ prog' = IF OwnsBar(t) THEN [prog EXCEPT ![t[1]].counter = @ + n] ELSE prog
    /\ UNCHANGED <<planner, cfg, env, rc, orch, eng, net>>

\* pb.set_position(prev + len)
CkSetPos(t) ==
    /\ ctask[t].st = "setpos"
    /\ prog' = IF OwnsBar(t) THEN [prog EXCEPT ![t[1]].pos = ctask[t].pend] ELSE prog
    /\ ctask' = [ctask EXCEPT ![t].st = "stream", ![t].pend = 0]
    /\ UNCHANGED <<planner, cfg, env, rc, orch, disk, eng, net>>

\* the stream (or a write) fails: Err, what the BufWriter holds is lost
CkFail(t) ==
    /\ ctask[t].st = "stream"
    /\ CanFail
    /\ net' = Fault(net)
    /\ ctask' = [ctask EXCEPT ![t] = [NoTask EXCEPT !.st = "err", !.start = ctask[t].start,
                     !.end = ctask[t].end, !.had = ctask[t].had, !.cur = ctask[t].cur,
                     !.ngets = ctask[t].ngets]]
    /\ eng' = [eng EXCEPT ![t[1]] = Resolve(@, t)]
    /\ UNCHANGED <<planner, cfg, env, rc, orch, disk, prog>>

\* the stream ends: writer.flush(), Ok(tmp_path)
CkEnd(t) ==
    /\ ctask[t].st = "stream"
    /\ ctask[t].left = 0
    /\ disk' = WriteFile(disk, ctask[t].w, ctask[t].buf)
    /\ ctask' = [ctask EXCEPT ![t] = [NoTask EXCEPT !.st = "ok", !.start = ctask[t].start,
                     !.end = ctask[t].end, !.had = ctask[t].had, !.cur = ctask[t].cur,
                     !.ngets = ctask[t].ngets]]
    /\ eng' = [eng EXCEPT ![t[1]] = Resolve(@, t)]
    /\ UNCHANGED <<planner, cfg, env, rc, orch, prog, net>>

\* --------------------------------------------- Downloader::download_file

NoRetry ==
    [pc |-> "idle", run |-> 0, attempt |-> 0, last_error |-> "none", result |-> "none",
     meta_len |-> 0, delays |-> <<>>, before |-> NoFile, tries |-> 0, errs |-> <<>>,
     lost |-> -1]

NoBatch ==
    [pc |-> "idle", next |-> 1, permits |-> 0, task |-> [j \in JobIds |-> "none"],
     calls |-> [j \in JobIds |-> 0], chan |-> <<>>, errors |-> <<>>, joined |-> {},
     result |-> "none"]

\* what a run starts from: nothing in flight, the output file as it is
FirstCall(d) == [NoRetry EXCEPT !.pc = "loop", !.run = 1, !.before = d[<<"a", "txt", 0>>]]

RECURSIVE Pow2(_)
Pow2(n) == IF n = 0 THEN 1 ELSE 2 * Pow2(n - 1)

Delay_FromOne(attempt) == Pow2(attempt - 1)

\* let delay = 2u64.pow(attempt as u32)
Delay(attempt) == Pow2(attempt)

\* try_download_single: a new ProgressBar (create_progress_bar panics on a
\* `chars` of fewer than two characters), then download::download_file
RcTry(r) ==
    IF cfg.charsOk
    THEN /\ rc' = [r EXCEPT !.pc = "try", !.tries = @ + 1]
         /\ eng' = [eng EXCEPT ![1] = StartEng(rc.attempt)]
         /\ prog' = [prog EXCEPT ![1] = NoProg]
    ELSE /\ rc' = [r EXCEPT !.pc = "done", !.result = "panic", !.tries = @ + 1]
         /\ UNCHANGED <<eng, prog>>

AttemptsLeft_AtLeastOne(attempt) == attempt < Max(1, cfg.retries)

\* `for attempt in 0..self.config.retries`: the range is empty when retries = 0
AttemptsLeft(attempt) == attempt < cfg.retries

\* the top of `for attempt in 0..retries`: leave the loop, sleep, or try
RcLoop ==
    /\ rc.pc = "loop"
    /\ IF ~AttemptsLeft(rc.attempt)
       THEN /\ rc' = [rc EXCEPT !.pc = "done",
                         !.result = IF rc.last_error = "none" THEN "unknown"
                                    ELSE rc.last_error]
            /\ UNCHANGED <<eng, prog>>
       ELSE IF rc.attempt > 0
       THEN /\ rc' = [rc EXCEPT !.pc = "sleep", !.delays = Append(@, Delay(rc.attempt))]
            /\ UNCHANGED <<eng, prog>>
       ELSE RcTry(rc)
    /\ UNCHANGED <<planner, cfg, env, disk, ctask, net, orch>>

\* tokio::time::sleep(delay) is over
RcWake ==
    /\ rc.pc = "sleep"
    /\ RcTry(rc)
    /\ UNCHANGED <<planner, cfg, env, disk, ctask, net, orch>>

\* Ok(_) => return Ok(())
RcOk ==
    /\ rc.pc = "try"
    /\ eng[1].pc = "done"
    /\ eng[1].result = "ok"
    /\ rc' = [rc EXCEPT !.pc = "done", !.result = "ok"]
    /\ UNCHANGED <<planner, cfg, env, disk, eng, ctask, prog, net, orch>>

RecheckAfter_EveryAttempt(attempt) == TRUE

\* if attempt == 0 && output_path.exists()
RecheckAfter(attempt) == attempt = 0

LastError_KeepFirst(old, e) == IF old = "none" THEN e ELSE old

\* last_error = Some(e)
LastError(old, e) == e

\* Err(e): last_error = Some(e); after the first attempt the output file's
\* metadata is read for the "already complete" check
RcErr ==
    /\ rc.pc = "try"
    /\ eng[1].pc = "done"
    /\ eng[1].result # "ok"
    /\ LET r == [rc EXCEPT !.last_error = LastError(@, eng[1].result),
                           !.errs = Append(@, eng[1].result),
                           !.lost = IF eng[1].parallel /\ eng[1].result = "io"
                                    THEN eng[1].merged ELSE @]
       IN  IF RecheckAfter(rc.attempt) /\ Exists(disk, Out(1))
           THEN rc' = [r EXCEPT !.pc = "recheck", !.meta_len = FileLen(disk, Out(1))]
           ELSE rc' = [r EXCEPT !.pc = "loop", !.attempt = @ + 1]
    /\ UNCHANGED <<planner, cfg, env, disk, eng, ctask, prog, net, orch>>

\* the HEAD of the check cannot be sent: on to the next attempt
RcRecheckFail ==
    /\ rc.pc = "recheck"
    /\ CanFail
    /\ net' = Fault(CountHead(net, 1))
    /\ rc' = [rc EXCEPT !.pc = "loop", !.attempt = @ + 1, !.meta_len = 0]
    /\ UNCHANGED <<planner, cfg, env, disk, eng, ctask, prog, orch>>

\* the HEAD is answered: with a Content-Length equal to the file's length the
\* download counts as complete
RcRecheckOk ==
    /\ rc.pc = "recheck"
    /\ net' = CountHead(net, 1)
    /\ IF Server(1).hasCL /\ rc.meta_len = Server(1).size
       THEN rc' = [rc EXCEPT !.pc = "done", !.result = "ok", !.meta_len = 0]
       ELSE rc' = [rc EXCEPT !.pc = "loop", !.attempt = @ + 1, !.meta_len = 0]
    /\ UNCHANGED <<planner, cfg, env, disk, eng, ctask, prog, orch>>

\* the planner of SpecPlan, not running
PlanIdle == [pc |-> "idle", total |-> 1, workers |-> 1, i |-> 0, chunks |-> <<>>]

\* ----------------------------------------------------------- the engine

EngineStep ==
    \/ \E j \in JobIds :
         \/ EngHeadFail(j) \/ EngHeadOk(j)
         \/ SeqCheck(j) \/ SeqGetFail(j) \/ SeqGetOk(j) \/ SeqOpen(j)
         \/ SeqRecv(j) \/ SeqFail(j) \/ SeqEnd(j)
         \/ ParSpawn(j) \/ ParJoinOk(j) \/ ParJoinErr(j)
         \/ MergeCreate(j) \/ MergePart(j) \/ MergeFail(j) \/ MergeEnd(j)
    \/ \E t \in TaskIds :
         \/ CkCheck(t) \/ CkGetFail(t) \/ CkGetOk(t) \/ CkOpen(t)
         \/ CkRecv(t) \/ CkSetPos(t) \/ CkFail(t) \/ CkEnd(t)

\* ------------------------------------------------- what is on disk at first

\* files an earlier, interrupted or completed, run can have left behind
Layouts ==
    {"clean", "out_part", "out_full", "out_long", "tmp_part", "tmp_most", "tmp_full", "tmp_long"}

\* the plan the first attempt of job j will make
PlanOf(j) ==
    PlannedChunks(OptimalWorkers(ReportedSize(j), cfg.workers), ReportedSize(j), cfg.workers)

LayoutApplies(lay, j) ==
    CASE lay = "clean" -> TRUE
      [] lay = "out_part" -> Server(j).size >= 2
      [] lay \in {"out_full", "out_long"} -> TRUE
      [] OTHER -> /\ UseParallel(j, ReportedSize(j))
                  /\ Len(PlanOf(j)) > 0
                  /\ lay \in {"tmp_part", "tmp_most"} => ReportedSize(j) >= 2

\* the files of layout lay for job j, as <<path, data>> pairs
LayoutFiles(lay, j) ==
    LET plan == PlanOf(j)
        lastc == plan[Len(plan)]
    IN  CASE lay = "clean" -> {}
          [] lay = "out_part" -> {<<Out(j), Bytes(Url(j), 0, 1)>>}
          [] lay = "out_full" -> {<<Out(j), Resource(j)>>}
          [] lay = "out_long" -> {<<Out(j), Cat(Resource(j), Zeros(1))>>}
          [] lay = "tmp_part" ->
                {<<TmpPath(Out(j), lastc.index), Bytes(Url(j), lastc.start, lastc.start + 1)>>}
          [] lay = "tmp_most" ->
                {<<TmpPath(Out(j), lastc.index), Bytes(Url(j), lastc.start, lastc.end)>>}
          [] lay = "tmp_full" ->
                {<<TmpPath(Out(j), 0), Bytes(Url(j), plan[1].start, plan[1].end + 1)>>}
          [] lay = "tmp_long" ->
                {<<TmpPath(Out(j), 0), Bytes(Url(j), plan[1].start, plan[1].end + 2)>>}

DiskOf(files) ==
    [p \in Paths |->
        IF \E f \in files : f[1] = p
        THEN [exists |-> TRUE, data |-> (CHOOSE f \in files : f[1] = p)[2], gen |-> 0]
        ELSE NoFile]

DefaultServer == [size |-> SmallSize, ranges |-> TRUE, hasCL |-> TRUE]

NoNet ==
    [heads |-> [j \in JobIds |-> 0], gets |-> [j \in JobIds |-> 0], faults |-> 0, budget |-> 0]

\* --------------------------- SpecAttempt: one call of download::download_file

AttemptInit ==
    /\ planner = PlanIdle
    /\ \E w \in 1..MaxWorkers, r \in BOOLEAN, mp \in {0, BigSize, DefaultMinParallel},
          sv \in Servers, lay \in Layouts :
         /\ cfg = [workers |-> w, resume |-> r, min_parallel |-> mp, retries |-> 1,
                   buffer_size |-> DEFAULT_BUFFER_SIZE, maxc |-> -1, charsOk |-> TRUE]
         /\ env = [jobs |-> <<[url |-> 1, out |-> <<"a", "txt", 0>>]>>,
                   server |-> [u \in JobIds |-> IF u = 1 THEN sv ELSE DefaultServer],
                   layout |-> lay]
         /\ LayoutApplies(lay, 1)
         /\ disk = DiskOf(LayoutFiles(lay, 1))
    /\ eng = [j \in JobIds |-> IF j = 1 THEN StartEng(0) ELSE IdleEng]
    /\ ctask = [t \in TaskIds |-> NoTask]
    /\ prog = [j \in JobIds |-> NoProg]
    /\ net = [NoNet EXCEPT !.budget = AttemptFaults]
    /\ rc = NoRetry
    /\ orch = NoBatch

AttemptNext == EngineStep

SpecAttempt == AttemptInit /\ [][AttemptNext]_vars

ParallelOk(j) == eng[j].pc = "done" /\ eng[j].result = "ok" /\ eng[j].parallel

\* the chunks of the attempt of job j that is running or has just ended
ChunkTasks(j) == {t \in TaskIds : t[1] = j /\ t[2] = eng[j].attempt /\ ctask[t].st # "none"}

ChunkLen(t) == ctask[t].end - ctask[t].start + 1

Resumed(t) ==
    /\ cfg.resume
    /\ ctask[t].st = "ok"
    /\ ctask[t].had > 0
    /\ ctask[t].had < ChunkLen(t)

\* C3: a download_chunk that resumes from a temp file of k bytes, 0 < k < n,
\* sends one GET, for the range (start + k)-end, and on success the temp file
\* holds the n bytes of the chunk, in order.
C3_ResumeFetchesTheRest ==
    \A t \in TaskIds :
        Resumed(t) =>
            /\ ctask[t].ngets = 1
            /\ ctask[t].cur = ctask[t].start + ctask[t].had
            /\ Exists(disk, Tmp(t)) =>
                   disk[Tmp(t)].data = Bytes(Url(t[1]), ctask[t].start, ctask[t].end + 1)

\* a resumed chunk of the two-chunk resource, complete and not yet merged
C3_Witness ==
    \E t \in TaskIds :
        /\ Resumed(t)
        /\ Exists(disk, Tmp(t))
        /\ ctask[t].start > 0
        /\ ctask[t].had > 1
        /\ FileLen(disk, Tmp(t)) = ChunkLen(t)

\* C13 as stated: while a parallel attempt runs, no step of any chunk fetcher
\* lowers the progress position of the file
C13_AsStated ==
    [][(eng[1].parallel /\ eng'[1].pc # "done") => prog'[1].pos >= prog[1].pos]_vars

\* the attempt of job j is inside download_optimized
OnSequentialPath(j) == eng[j].pc \in {"seq_check", "seq_get", "seq_open", "seq_stream"}

\* the attempt of job j is inside download_parallel
OnParallelPath(j) == eng[j].pc \in {"par_spawn", "par_join", "merge"}

\* what the claim gives as the condition of the sequential path
SequentialCondition(j) ==
    \/ ~Server(j).ranges
    \/ ReportedSize(j) <= cfg.min_parallel
    \/ cfg.workers <= 1

SequentialNoResumeOk(j) ==
    /\ eng[j].pc = "done"
    /\ eng[j].result = "ok"
    /\ ChunkTasks(j) = {}
    /\ ~cfg.resume

\* C17: a download_optimized that succeeds with resume off has sent exactly
\* one GET, without a Range header; the output file holds the bytes of the
\* response body and nothing else, whatever it held before; the progress
\* position is the total size.
C17_SequentialFresh ==
    \A j \in DOMAIN env.jobs :
        SequentialNoResumeOk(j) =>
            /\ net.gets[j] = 1
            /\ eng[j].agets = 1
            /\ eng[j].range_from = -1
            /\ Exists(disk, Out(j))
            /\ disk[Out(j)].data = Resource(j)
            /\ prog[j].pos = eng[j].total

\* the output file was longer than the resource before the download
C17_Witness ==
    /\ SequentialNoResumeOk(1)
    /\ env.layout = "out_long"
    /\ Server(1).hasCL
    /\ Server(1).size = SmallSize

NoTempFiles == env.layout \in {"clean", "out_part", "out_full", "out_long"}

\* C18: a download_parallel that starts without temp files and succeeds has
\* run one task per planned chunk, each of which sent exactly one GET, for
\* bytes=start_i-end_i; the output file is the chunks in index order, that is
\* the resource, and its size is total_size. 10,000,000 bytes with a threshold
\* of 5,000,000 and 4 workers are planned as 4 chunks.
C18_ParallelFresh ==
    /\ \A j \in DOMAIN env.jobs :
         (ParallelOk(j) /\ NoTempFiles) =>
             LET plan == PlanOf(j)
             IN  /\ {t[3] : t \in ChunkTasks(j)} = {plan[n].index : n \in 1..Len(plan)}
                 /\ \A n \in 1..Len(plan) :
                      LET t == TaskOf(j, plan[n].index)
                      IN  /\ ctask[t].ngets = 1
                          /\ ctask[t].cur = plan[n].start
                          /\ ctask[t].end = plan[n].end
                 /\ net.gets[j] = Len(plan)
                 /\ disk[Out(j)].data = Resource(j)
                 /\ FileLen(disk, Out(j)) = eng[j].total
    /\ 10000000 > 5000000
    /\ Len(PlannedChunks(OptimalWorkers(10000000, 4), 10000000, 4)) = 4

\* two chunks, fetched and merged from a clean directory
C18_Witness ==
    /\ ParallelOk(1)
    /\ env.layout = "clean"
    /\ Len(PlanOf(1)) = 2
    /\ eng[1].finished = <<1, 0>>

\* the task of a chunk has returned
Returned(t) == ctask[t].st \in {"ok", "err"}

\* C22 as stated: when download_parallel has returned an error, every chunk
\* task it spawned has returned
C22_AsStated ==
    \A j \in DOMAIN env.jobs :
        (eng[j].pc = "done" /\ eng[j].result # "ok") =>
            \A t \in ChunkTasks(j) : Returned(t)

\* the output file of job j as the layout put it, before the attempt
OutputBefore(j) == DiskOf(LayoutFiles(env.layout, j))[Out(j)]

\* C24: merge_parts runs only when every chunk task of the attempt (one per
\* planned chunk) has returned Ok; when a chunk task fails, on the GET or in
\* the stream, download_parallel returns the error and the output file is as
\* it was before the attempt: not created, not truncated, not written.
C24_MergeAfterAllChunks ==
    \A j \in DOMAIN env.jobs :
        /\ eng[j].pc = "merge" =>
               /\ \A t \in ChunkTasks(j) : ctask[t].st = "ok"
               /\ Cardinality(ChunkTasks(j)) = Len(PlanOf(j))
        /\ (\E t \in ChunkTasks(j) : ctask[t].st = "err") =>
               /\ eng[j].pc \in {"par_spawn", "par_join", "done"}
               /\ disk[Out(j)] = OutputBefore(j)
               /\ eng[j].pc = "done" => eng[j].result = "chunk"

\* chunk 0 was fetched, chunk 1 failed in its stream, the attempt has failed
\* and the complete output file of an earlier run is still there
C24_Witness ==
    /\ eng[1].pc = "done"
    /\ eng[1].result = "chunk"
    /\ env.layout = "out_full"
    /\ ctask[<<1, 0, 0>>].st = "ok"
    /\ ctask[<<1, 0, 1>>].st = "err"
    /\ ctask[<<1, 0, 1>>].ngets = 1
    /\ disk[Out(1)].data = Resource(1)

\* the temp files of job j that are on disk
TempsOnDisk(j) == {i \in ChunkIdx : Exists(disk, TmpPath(Out(j), i))}

\* C25 as stated: merge_parts removes each part right after copying it, so
\* while it runs the parts already copied are gone, and once a parallel
\* download has returned Ok no temp file of the job is on disk
C25_AsStated ==
    \A j \in DOMAIN env.jobs :
        /\ eng[j].pc = "merge" =>
               \A n \in 1..Len(eng[j].handles) :
                   n < eng[j].k => eng[j].handles[n] \notin TempsOnDisk(j)
        /\ ParallelOk(j) => TempsOnDisk(j) = {}

\* the bytes of the chunk of task t
ChunkBytes(t) == Bytes(Url(t[1]), ctask[t].start, ctask[t].end + 1)

\* file content d is the first bytes of e
IsPrefix(d, e) == DataLen(d) <= DataLen(e) /\ d = TakeBytes(e, DataLen(d))

\* C27 as stated: the step in which the stream of a chunk fetch fails changes no file:
\* the temp file stays on disk with what was written to it. It holds the
\* first bytes of the chunk, no more than the chunk, and at least the bytes
\* it held when the task resumed from it.
C27_AsStated ==
    [][\A t \in TaskIds :
         (ctask[t].st = "stream" /\ ctask'[t].st = "err") =>
             /\ disk' = disk
             /\ Exists(disk', Tmp(t))
             /\ IsPrefix(disk'[Tmp(t)].data, ChunkBytes(t))
             /\ FileLen(disk', Tmp(t)) >= ctask[t].had
             /\ FileLen(disk', Tmp(t)) <= ChunkLen(t)]_vars

\* the length of the output file of job j before the attempt
LenBefore(j) == DataLen(OutputBefore(j).data)

\* download_optimized runs with resume on and finds an output file shorter
\* than total_size, and not empty
ResumesOutput(j) ==
    /\ cfg.resume
    /\ SequentialCondition(j)
    /\ OutputBefore(j).exists
    /\ 0 < LenBefore(j)
    /\ LenBefore(j) < ReportedSize(j)

\* what the server sends for `Range: bytes=e-` (the whole resource when it
\* ignores the header)
RestBody(j, e) == Bytes(Url(j), RangeBody(j, e, -1).lo, RangeBody(j, e, -1).hi)

\* C29: with resume on and an output file of length e, 0 < e < total_size,
\* download_optimized sets the progress position to e before the request,
\* sends one GET, with Range: bytes=e-, and appends the response body to the
\* file; when it returns Ok the progress position is total_size.
C29_SequentialResumes ==
    \A j \in DOMAIN env.jobs :
        ResumesOutput(j) =>
            /\ eng[j].pc \in {"seq_get", "seq_open"} =>
                   /\ eng[j].start_byte = LenBefore(j)
                   /\ prog[j].pos = LenBefore(j)
            /\ eng[j].pc = "seq_stream" =>
                   /\ eng[j].w.append
                   /\ prog[j].pos >= LenBefore(j)
                   /\ eng[j].range_from = LenBefore(j)
            /\ (eng[j].pc = "done" /\ eng[j].result = "ok") =>
                   /\ net.gets[j] = 1
                   /\ eng[j].range_from = LenBefore(j)
                   /\ disk[Out(j)].data = Cat(OutputBefore(j).data, RestBody(j, LenBefore(j)))
                   /\ prog[j].pos = eng[j].total
                   /\ prog[j].pos = ReportedSize(j)

\* the first byte was on disk, the other bytes were fetched and appended
C29_Witness ==
    /\ ResumesOutput(1)
    /\ eng[1].pc = "done"
    /\ eng[1].result = "ok"
    /\ Server(1).ranges
    /\ Server(1).size = BigSize
    /\ LenBefore(1) = 1
    /\ disk[Out(1)].data = Resource(1)

C34_AsStated ==
    \A j \in DOMAIN env.jobs :
        (ParallelOk(j) /\ cfg.resume) =>
            /\ FileLen(disk, Out(j)) = eng[j].total
            /\ disk[Out(j)].data = Resource(j)


\* ------------------------------------------- Downloader::download_multiple

BatchJobs == 1..Len(env.jobs)

MaxConcurrent_NoFloor ==
    IF cfg.maxc < 0 THEN Min(8, 16 \div Max(1, cfg.workers)) ELSE cfg.maxc

\* self.config.max_concurrent_files.unwrap_or_else(|| min(8, max(1, 16 / max(1, workers))))
MaxConcurrent ==
    IF cfg.maxc < 0 THEN Min(8, Max(1, 16 \div Max(1, cfg.workers))) ELSE cfg.maxc

\* downloads.is_empty(): Ok(()) at once
BatchEmpty ==
    /\ orch.pc = "start"
    /\ Len(env.jobs) = 0
    /\ orch' = [orch EXCEPT !.pc = "done", !.result = "ok"]
    /\ UNCHANGED <<planner, cfg, env, disk, eng, ctask, prog, net, rc>>

\* Semaphore::new(max_concurrent), the channel, the task list
BatchStart ==
    /\ orch.pc = "start"
    /\ Len(env.jobs) > 0
    /\ orch' = [orch EXCEPT !.pc = "spawn", !.permits = MaxConcurrent, !.next = 1]
    /\ UNCHANGED <<planner, cfg, env, disk, eng, ctask, prog, net, rc>>

\* one iteration of the for loop: tokio::spawn, tasks.push
OSpawn ==
    /\ orch.pc = "spawn"
    /\ orch.next <= Len(env.jobs)
    /\ orch' = [orch EXCEPT !.task[orch.next] = "wait", !.next = @ + 1]
    /\ UNCHANGED <<planner, cfg, env, disk, eng, ctask, prog, net, rc>>

\* the loop is over: drop(tx)
ODropTx ==
    /\ orch.pc = "spawn"
    /\ orch.next > Len(env.jobs)
    /\ orch' = [orch EXCEPT !.pc = "join"]
    /\ UNCHANGED <<planner, cfg, env, disk, eng, ctask, prog, net, rc>>

\* the task of file j: sem.acquire(), create_progress_bar (which panics on a
\* `chars` of fewer than two characters, and the unwinding drops the permit),
\* then the one call of download::download_file
TAcquire(j) ==
    /\ orch.task[j] = "wait"
    /\ orch.permits > 0
    /\ IF cfg.charsOk
       THEN /\ orch' = [orch EXCEPT !.task[j] = "run", !.permits = @ - 1, !.calls[j] = @ + 1]
            /\ eng' = [eng EXCEPT ![j] = StartEng(0)]
            /\ prog' = [prog EXCEPT ![j] = NoProg]
       ELSE /\ orch' = [orch EXCEPT !.task[j] = "panicked"]
            /\ UNCHANGED <<eng, prog>>
    /\ UNCHANGED <<planner, cfg, env, disk, ctask, net, rc>>

DropPermit_OnlyOnOk(permits, res) == IF res = "ok" THEN permits + 1 ELSE permits

\* `_permit` goes out of scope at the end of the task, whatever the result
DropPermit(permits, res) == permits + 1

\* download_file returned: pb.finish_with_message, tx.send(Ok | Err), the
\* permit is dropped with the task's locals
TFinish(j) ==
    /\ orch.task[j] = "run"
    /\ eng[j].pc = "done"
    /\ orch' = [orch EXCEPT !.task[j] = "finished",
                            !.permits = DropPermit(@, eng[j].result),
                            !.chan = Append(@, [file |-> j, res |-> eng[j].result])]
    /\ prog' = [prog EXCEPT ![j].pos = prog[j].len]
    /\ UNCHANGED <<planner, cfg, env, disk, eng, ctask, net, rc>>

\* tasks.next() yields a task that has ended, in the order they end
OJoin ==
    /\ orch.pc = "join"
    /\ \E j \in BatchJobs \ orch.joined :
         /\ orch.task[j] \in {"finished", "panicked"}
         /\ orch' = [orch EXCEPT !.pc = "drain", !.joined = @ \cup {j},
                                 !.errors = IF orch.task[j] = "panicked"
                                            THEN Append(@, [file |-> j, res |-> "panic"])
                                            ELSE @]
    /\ UNCHANGED <<planner, cfg, env, disk, eng, ctask, prog, net, rc>>

OTryRecv_Discards ==
    /\ orch.pc = "drain"
    /\ orch' = [orch EXCEPT !.chan = <<>>, !.pc = "join"]
    /\ UNCHANGED <<planner, cfg, env, disk, eng, ctask, prog, net, rc>>

\* one turn of `while let Ok(msg) = rx.try_recv()`
OTryRecv ==
    /\ orch.pc = "drain"
    /\ IF orch.chan # <<>>
       THEN orch' = [orch EXCEPT !.chan = Tail(@),
                                 !.errors = IF Head(orch.chan).res # "ok"
                                            THEN Append(@, Head(orch.chan)) ELSE @]
       ELSE orch' = [orch EXCEPT !.pc = "join"]
    /\ UNCHANGED <<planner, cfg, env, disk, eng, ctask, prog, net, rc>>

\* tasks.next() yields None: every task has been joined
OJoinEnd ==
    /\ orch.pc = "join"
    /\ orch.joined = BatchJobs
    /\ orch' = [orch EXCEPT !.pc = "recv"]
    /\ UNCHANGED <<planner, cfg, env, disk, eng, ctask, prog, net, rc>>

\* one turn of `while let Some(msg) = rx.recv().await`; every sender is gone
\* by now, so an empty channel yields None
ORecv ==
    /\ orch.pc = "recv"
    /\ IF orch.chan # <<>>
       THEN orch' = [orch EXCEPT !.chan = Tail(@),
                                 !.errors = IF Head(orch.chan).res # "ok"
                                            THEN Append(@, Head(orch.chan)) ELSE @]
       ELSE orch' = [orch EXCEPT !.pc = "report"]
    /\ UNCHANGED <<planner, cfg, env, disk, eng, ctask, prog, net, rc>>

OReport_AnySuccess ==
    /\ orch.pc = "report"
    /\ orch' = [orch EXCEPT !.pc = "done",
                            !.result = IF Len(orch.errors) < Len(env.jobs) THEN "ok" ELSE "err"]
    /\ UNCHANGED <<planner, cfg, env, disk, eng, ctask, prog, net, rc>>

\* errors.is_empty() decides the result
OReport ==
    /\ orch.pc = "report"
    /\ orch' = [orch EXCEPT !.pc = "done",
                            !.result = IF orch.errors = <<>> THEN "ok" ELSE "err"]
    /\ UNCHANGED <<planner, cfg, env, disk, eng, ctask, prog, net, rc>>

BatchOut(j) ==
    CASE j = 1 -> <<"a", "txt", 0>>
      [] j = 2 -> <<"b", "txt", 0>>
      [] OTHER -> <<"a", "zip", 0>>

\* the first file may be one of two chunks, the others are small
BatchInit ==
    /\ planner = PlanIdle
    /\ \E n \in 0..MaxFiles, w \in {1, MaxWorkers}, mc \in {-1, 0, 1}, ok \in BOOLEAN,
          sv \in {s \in Servers : s.hasCL /\ s.ranges /\ s.size > 0} :
         /\ cfg = [workers |-> w, resume |-> FALSE, min_parallel |-> 0, retries |-> MaxRetries,
                   buffer_size |-> DEFAULT_BUFFER_SIZE, maxc |-> mc, charsOk |-> ok]
         /\ env = [jobs |-> [j \in 1..n |-> [url |-> j, out |-> BatchOut(j)]],
                   server |-> [u \in JobIds |-> IF u = 1 THEN sv ELSE DefaultServer],
                   layout |-> "clean"]
    /\ disk = DiskOf({})
    /\ eng = [j \in JobIds |-> IdleEng]
    /\ ctask = [t \in TaskIds |-> NoTask]
    /\ prog = [j \in JobIds |-> NoProg]
    /\ net = [NoNet EXCEPT !.budget = BatchFaults]
    /\ rc = NoRetry
    /\ orch = [NoBatch EXCEPT !.pc = "start"]

BatchStep ==
    \/ BatchEmpty \/ BatchStart \/ OSpawn \/ ODropTx
    \/ \E j \in JobIds : TAcquire(j) \/ TFinish(j)
    \/ OJoin \/ OTryRecv \/ OJoinEnd \/ ORecv \/ OReport

BatchNext == EngineStep \/ BatchStep

SpecBatch == BatchInit /\ [][BatchNext]_vars

\* a batch of small files, or none, from a clean directory
FairInit ==
    /\ planner = PlanIdle
    /\ \E n \in {0, MaxFiles}, w \in {1, MaxWorkers}, mc \in {-1, 0, 1}, ok \in BOOLEAN :
         /\ cfg = [workers |-> w, resume |-> FALSE, min_parallel |-> 0, retries |-> MaxRetries,
                   buffer_size |-> DEFAULT_BUFFER_SIZE, maxc |-> mc, charsOk |-> ok]
         /\ env = [jobs |-> [j \in 1..n |-> [url |-> j, out |-> BatchOut(j)]],
                   server |-> [u \in JobIds |-> DefaultServer],
                   layout |-> "clean"]
    /\ disk = DiskOf({})
    /\ eng = [j \in JobIds |-> IdleEng]
    /\ ctask = [t \in TaskIds |-> NoTask]
    /\ prog = [j \in JobIds |-> NoProg]
    /\ net = [NoNet EXCEPT !.budget = BatchFaults]
    /\ rc = NoRetry
    /\ orch = [NoBatch EXCEPT !.pc = "start"]

\* the runtime keeps polling the orchestrator and every spawned task: a step
\* that can be taken is eventually taken
SpecBatchFair == FairInit /\ [][BatchNext]_vars /\ WF_vars(BatchNext)

Running(t) == ctask[t].st \notin {"none", "ok", "err"}

\* file j is between the start of its probe and the end of its last chunk
\* fetch or merge
InFlight(j) ==
    \/ eng[j].pc \notin {"idle", "done"}
    \/ \E t \in TaskIds : t[1] = j /\ Running(t)

Succeeded(j) == orch.task[j] = "finished" /\ eng[j].result = "ok"

Failed(j) == orch.task[j] = "finished" /\ eng[j].result # "ok"

Panicked(j) == orch.task[j] = "panicked"

\* C6 as stated: at most max_concurrent_files files are in flight at any
\* moment, and a file whose permit has been released has no chunk fetch left
C6_AsStated ==
    orch.pc \notin {"idle", "start"} =>
        /\ Cardinality({j \in BatchJobs : InFlight(j)}) <= MaxConcurrent
        /\ \A j \in BatchJobs : orch.task[j] = "finished" => ~InFlight(j)

\* C7: download_multiple returns success if and only if every file of the
\* batch succeeded; an empty batch returns success
C7_SuccessIffAllSucceeded ==
    orch.pc = "done" =>
        /\ orch.result = "ok" <=> \A j \in BatchJobs : Succeeded(j)
        /\ Len(env.jobs) = 0 => orch.result = "ok"

C7_Witness ==
    /\ orch.pc = "done"
    /\ orch.result = "err"
    /\ \E j, k \in BatchJobs : Succeeded(j) /\ Failed(k)

\* C8: once a file of the batch has failed, every file of the batch is still
\* admitted and reaches its own outcome, and download_multiple returns
C8_FailureDoesNotStopBatch ==
    (\E j \in BatchJobs : Failed(j) \/ Panicked(j))
        ~> (/\ \A j \in BatchJobs : Succeeded(j) \/ Failed(j) \/ Panicked(j)
            /\ orch.pc = "done")

\* a file is admitted after another has failed while holding the only permit
C8_Witness ==
    /\ MaxConcurrent = 1
    /\ \E j, k \in BatchJobs : Failed(j) /\ orch.task[k] = "run"

\* C36: download_multiple returns in the end for every batch that is not
\* empty and every configuration, given that every download attempt ends:
\* with max_concurrent_files = Some(0) and with more files than permits too.
C36_AsStated ==
    (orch.pc = "start" /\ Len(env.jobs) > 0) ~> (orch.pc = "done")

ErrorsOf(j) == {n \in 1..Len(orch.errors) : orch.errors[n].file = j}

\* C9: the error list of download_multiple holds exactly one entry, with the
\* file's own error, for each file whose download failed or whose task
\* panicked, and none for the others
C9_OneErrorPerFailedFile ==
    /\ \A j \in JobIds : Cardinality(ErrorsOf(j)) <= 1
    /\ orch.pc \in {"report", "done"} =>
         /\ Len(orch.errors) = Cardinality({j \in BatchJobs : Failed(j) \/ Panicked(j)})
         /\ \A j \in BatchJobs :
              /\ Failed(j) => \E n \in ErrorsOf(j) : orch.errors[n].res = eng[j].result
              /\ Panicked(j) => \E n \in ErrorsOf(j) : orch.errors[n].res = "panic"
              /\ Succeeded(j) => ErrorsOf(j) = {}

C9_Witness ==
    /\ orch.pc = "done"
    /\ Len(orch.errors) = 2
    /\ \E j \in BatchJobs : Failed(j) /\ eng[j].result = "chunk"

\* C10 as stated: a file reported as failed by download_multiple has been
\* attempted `retries` times
C10_AsStated ==
    \A j \in BatchJobs : Failed(j) => orch.calls[j] = cfg.retries

\* ------------ SpecRetry2: Downloader::download_file of a two-chunk file

\* a file of two chunks (or, with one worker, of one sequential request) from
\* a clean directory, with continue_download on, attempted up to twice; up to
\* Retry2Faults requests, streams or file operations fail
Retry2Init ==
    /\ planner = PlanIdle
    /\ \E w \in {1, MaxWorkers} :
         /\ cfg = [workers |-> w, resume |-> TRUE, min_parallel |-> 0, retries |-> 2,
                   buffer_size |-> DEFAULT_BUFFER_SIZE, maxc |-> -1, charsOk |-> TRUE]
         /\ env = [jobs |-> <<[url |-> 1, out |-> <<"a", "txt", 0>>]>>,
                   server |-> [u \in JobIds |->
                                 IF u = 1 THEN [size |-> BigSize, ranges |-> TRUE, hasCL |-> TRUE]
                                 ELSE DefaultServer],
                   layout |-> "clean"]
    /\ disk = DiskOf({})
    /\ eng = [j \in JobIds |-> IdleEng]
    /\ ctask = [t \in TaskIds |-> NoTask]
    /\ prog = [j \in JobIds |-> NoProg]
    /\ net = [NoNet EXCEPT !.budget = Retry2Faults]
    /\ rc = FirstCall(disk)
    /\ orch = NoBatch

Retry2Next ==
    \/ EngineStep
    \/ RcLoop \/ RcWake \/ RcOk \/ RcErr \/ RcRecheckFail \/ RcRecheckOk

SpecRetry2 == Retry2Init /\ [][Retry2Next]_vars

\* --------------------- SpecPaths: a batch of two files and their paths

\* the output paths of a batch of two: the same path twice, two paths that
\* differ in the extension only, two paths that differ in the stem
OutPairs ==
    { <<<<"a", "txt", 0>>, <<"a", "txt", 0>>>>,
      <<<<"a", "txt", 0>>, <<"a", "zip", 0>>>>,
      <<<<"a", "txt", 0>>, <<"b", "txt", 0>>>> }

PathsInit ==
    /\ planner = PlanIdle
    /\ \E n \in {0, 2}, w \in {1, MaxWorkers}, r \in BOOLEAN, op \in OutPairs :
         /\ cfg = [workers |-> w, resume |-> r, min_parallel |-> 0, retries |-> MaxRetries,
                   buffer_size |-> DEFAULT_BUFFER_SIZE, maxc |-> -1, charsOk |-> TRUE]
         /\ env = [jobs |-> [j \in 1..n |-> [url |-> j, out |-> op[j]]],
                   server |-> [u \in JobIds |-> DefaultServer],
                   layout |-> "clean"]
    /\ disk = DiskOf({})
    /\ eng = [j \in JobIds |-> IdleEng]
    /\ ctask = [t \in TaskIds |-> NoTask]
    /\ prog = [j \in JobIds |-> NoProg]
    /\ net = [NoNet EXCEPT !.budget = PathFaults]
    /\ rc = NoRetry
    /\ orch = [NoBatch EXCEPT !.pc = "start"]

SpecPaths == PathsInit /\ [][BatchNext]_vars

\* chunk task t has its temp file open for writing
WritesTemp(t) == ctask[t].st \in {"stream", "setpos"}

\* the download of file j has the output file open for writing
WritesOutput(j) == eng[j].pc \in {"seq_stream", "merge"}

\* C14 as stated: no two chunk tasks that are alive write the same temp path
C14_AsStated ==
    \A t, u \in TaskIds :
        (t # u /\ WritesTemp(t) /\ WritesTemp(u)) => Tmp(t) # Tmp(u)

\* C15 as stated: no two download tasks of a batch write the same output path
\* at the same time
C15_AsStated ==
    \A j, k \in BatchJobs :
        (j # k /\ WritesOutput(j) /\ WritesOutput(k)) => Out(j) # Out(k)

\* C35: the temp path of a chunk is an injective function of the output path
\* and the chunk index: the chunk tasks of two different output paths of one
\* batch (paths that differ only in the extension, say) never get the same
\* temp path.
C35_AsStated ==
    \A t, u \in TaskIds :
        ( /\ ctask[t].st # "none"
          /\ ctask[u].st # "none"
          /\ <<Out(t[1]), t[3]>> # <<Out(u[1]), u[3]>> ) => Tmp(t) # Tmp(u)

\* the GETs the chunk tasks of job j have sent, over all attempts
ChunkGets(j) == Cardinality({t \in TaskIds : t[1] = j /\ ctask[t].ngets > 0})

\* C38: within one attempt a failed chunk is never fetched again: each chunk
\* sends at most one GET per attempt, a failed chunk task stays failed, the
\* attempt it belongs to never merges, and a chunk is fetched again only by a
\* new whole-file attempt that the retry loop has started.
C38_OneGetPerChunkPerAttempt ==
    /\ [](\A t \in TaskIds :
            /\ ctask[t].ngets <= 1
            /\ ctask[t].st # "none" => t[2] < rc.tries
            /\ (ctask[t].st = "err" /\ eng[t[1]].attempt = t[2]) =>
                   /\ eng[t[1]].pc # "merge"
                   /\ eng[t[1]].result # "ok")
    /\ [](cfg.workers > 1 => net.gets[1] = ChunkGets(1))
    /\ [][\A t \in TaskIds : ctask[t].st = "err" => ctask'[t] = ctask[t]]_vars

\* a chunk failed in the first attempt and the second attempt has sent a GET
\* for the same chunk
C38_Witness ==
    \E i \in ChunkIdx :
        /\ ctask[<<1, 0, i>>].st = "err"
        /\ ctask[<<1, 0, i>>].ngets = 1
        /\ ctask[<<1, 1, i>>].ngets = 1
        /\ rc.tries = 2

\* ------------- SpecPermits: the start of download_multiple, any worker count

PermitsInit ==
    /\ planner = PlanIdle
    /\ \E n \in 0..MaxFiles, w \in 0..PermitWorkers, mc \in {-1, 1} :
         /\ cfg = [workers |-> w, resume |-> FALSE, min_parallel |-> 0, retries |-> 1,
                   buffer_size |-> DEFAULT_BUFFER_SIZE, maxc |-> mc, charsOk |-> TRUE]
         /\ env = [jobs |-> [j \in 1..n |-> [url |-> j, out |-> BatchOut(j)]],
                   server |-> [u \in JobIds |-> DefaultServer],
                   layout |-> "clean"]
    /\ disk = DiskOf({})
    /\ eng = [j \in JobIds |-> IdleEng]
    /\ ctask = [t \in TaskIds |-> NoTask]
    /\ prog = [j \in JobIds |-> NoProg]
    /\ net = NoNet
    /\ rc = NoRetry
    /\ orch = [NoBatch EXCEPT !.pc = "start"]

\* up to drop(tx): the semaphore is made, the tasks are spawned, none has run
PermitsNext == BatchEmpty \/ BatchStart \/ OSpawn \/ ODropTx

SpecPermits == PermitsInit /\ [][PermitsNext]_vars

SemaphoreMade == orch.pc \in {"spawn", "join"}

\* C20: with max_concurrent_files unset the semaphore of download_multiple
\* gets min(8, max(1, 16 / workers)) permits; for workers = 0 the divisor is
\* taken as 1, so nothing fails, and for every workers value the number of
\* permits lies in 1..8.
C20_AutoPermits ==
    (SemaphoreMade /\ cfg.maxc < 0) =>
        /\ orch.permits \in 1..8
        /\ cfg.workers >= 1 => orch.permits = Min(8, Max(1, 16 \div cfg.workers))
        /\ cfg.workers = 0 => orch.permits = 8
        /\ cfg.workers > 16 => orch.permits = 1

\* a configuration with workers = 0
C20_Witness ==
    /\ SemaphoreMade
    /\ cfg.maxc < 0
    /\ cfg.workers = 0
    /\ orch.permits = 8

\* the chunk tasks of job j, of any attempt, whose ranged GET has been
\* answered and whose body is still being received
Fetching(j) == {t \in TaskIds : t[1] = j /\ ctask[t].st \in {"open", "stream", "setpos"}}

\* C23 as stated: a file never has more range fetches in flight than
\* config.workers, over all the attempts of Downloader::download_file
C23_AsStated ==
    \A j \in DOMAIN env.jobs : Cardinality(Fetching(j)) <= cfg.workers

MergeFailed(j) == eng[j].pc = "done" /\ eng[j].parallel /\ eng[j].result = "io"

\* the task of chunk i in the attempt that is running
Chunk(i) == ctask[<<1, eng[1].attempt, i>>]

\* C26 as stated: when merge_parts fails at a part, the attempt fails; the
\* parts copied before it are gone from disk and the part it failed at and the
\* later ones are still there. In the next attempt, with resume on, the chunks of
\* the parts that are gone are fetched again from their first byte with one
\* GET each, while the parts left on disk are found complete.
C26_AsStated ==
    /\ MergeFailed(1) =>
           \A n \in 1..Len(PlanOf(1)) :
               LET c == PlanOf(1)[n]
               IN  IF c.index < eng[1].merged
                   THEN c.index \notin TempsOnDisk(1)
                   ELSE c.index \in TempsOnDisk(1)
    /\ (rc.lost >= 0 /\ rc.tries = 2) =>
           \A n \in 1..Len(PlanOf(1)) :
               LET c == PlanOf(1)[n]
               IN  Chunk(c.index).st = "ok" =>
                       IF c.index < rc.lost
                       THEN /\ Chunk(c.index).had = 0
                            /\ Chunk(c.index).ngets = 1
                            /\ Chunk(c.index).cur = c.start
                       ELSE /\ Chunk(c.index).had = c.end - c.start + 1
                            /\ Chunk(c.index).ngets = 0

\* C28 as stated: when a file of the batch has failed, every other file that
\* was downloaded successfully is as it would be had it been downloaded
\* alone: its output file holds its resource and none of its temp files is
\* left
C28_AsStated ==
    \A j, k \in BatchJobs :
        (j # k /\ Failed(j) /\ Succeeded(k) /\ ~InFlight(j) /\ ~InFlight(k)) =>
            /\ Exists(disk, Out(k))
            /\ disk[Out(k)].data = Resource(k)
            /\ TempsOnDisk(k) = {}

\* ------------------------------ Spec: Downloader::download_file, run twice

Settled == \A t \in TaskIds : ctask[t].st \in {"none", "ok", "err"}

\* Spec downloads files of one chunk on either path; two chunks of one file,
\* and what becomes of them when the attempt ends, are SpecAttempt's
RetryServers == {s \in Servers : s.size < MIN_CHUNK_SIZE}

RetryInit ==
    /\ planner = PlanIdle
    /\ \E w \in 1..MaxWorkers, r \in BOOLEAN, mp \in {0, DefaultMinParallel},
          n \in 0..MaxRetries, sv \in RetryServers, lay \in Layouts, ok \in BOOLEAN :
         /\ cfg = [workers |-> w, resume |-> r, min_parallel |-> mp, retries |-> n,
                   buffer_size |-> DEFAULT_BUFFER_SIZE, maxc |-> -1, charsOk |-> ok]
         /\ env = [jobs |-> <<[url |-> 1, out |-> <<"a", "txt", 0>>]>>,
                   server |-> [u \in JobIds |-> IF u = 1 THEN sv ELSE DefaultServer],
                   layout |-> lay]
         /\ LayoutApplies(lay, 1)
         /\ disk = DiskOf(LayoutFiles(lay, 1))
    /\ eng = [j \in JobIds |-> IdleEng]
    /\ ctask = [t \in TaskIds |-> NoTask]
    /\ prog = [j \in JobIds |-> NoProg]
    /\ net = [NoNet EXCEPT !.budget = RetryFaults]
    /\ rc = FirstCall(disk)
    /\ orch = NoBatch

\* download_file returned Ok and is called again, on what the first call left
Rerun ==
    /\ rc.pc = "done"
    /\ rc.result = "ok"
    /\ rc.run = 1
    /\ Settled
    /\ rc' = [FirstCall(disk) EXCEPT !.run = 2]
    /\ eng' = [j \in JobIds |-> IdleEng]
    /\ ctask' = [t \in TaskIds |-> NoTask]
    /\ prog' = [j \in JobIds |-> NoProg]
    /\ net' = [NoNet EXCEPT !.budget = RetryFaults]
    /\ UNCHANGED <<planner, cfg, env, disk, orch>>

Next ==
    \/ EngineStep
    \/ RcLoop \/ RcWake \/ RcOk \/ RcErr \/ RcRecheckFail \/ RcRecheckOk
    \/ Rerun

Spec == RetryInit /\ [][Next]_vars

\* the probe of the current attempt was answered
ProbeAnswered(j) == eng[j].pc \notin {"idle", "head"} /\ eng[j].result # "connect"

\* when download_file was called, the destination existed with the length
\* the server reports in its HEAD response
AlreadyComplete ==
    rc.before.exists /\ DataLen(rc.before.data) = ReportedSize(1)

SequentialResume == cfg.resume /\ ~UseParallel(1, ReportedSize(1))

\* C4 as stated: whenever the destination already has the probed length, no
\* GET is issued, whatever the configuration
C4_AsStated ==
    (rc.run = 1 /\ AlreadyComplete /\ ProbeAnswered(1)) => net.gets[1] = 0

\* C4 amended: with continue_download on and the sequential path, a call that
\* finds the destination with the probed length issues no GET, leaves the file
\* as it is, and returns success once a probe of its own has been answered
C4_NoGetWhenComplete ==
    (AlreadyComplete /\ SequentialResume) =>
        /\ net.gets[1] = 0
        /\ disk[Out(1)] = rc.before
        /\ ProbeAnswered(1) =>
             /\ eng[1].pc \in {"seq_check", "done"}
             /\ eng[1].result \in {"none", "ok"}
             /\ rc.pc = "done" => rc.result = "ok"

C4_Witness ==
    /\ rc.run = 1 /\ AlreadyComplete /\ SequentialResume
    /\ Server(1).size > 0
    /\ eng[1].pc = "done" /\ eng[1].result = "ok"
    /\ rc.pc = "done" /\ rc.result = "ok"

\* C5 as stated: the second run of a completed download issues no GET and at
\* most one HEAD and leaves the file as it was, on either path (taken here with
\* no request failing in the second run)
C5_AsStated ==
    (rc.run = 2 /\ net.faults = 0) =>
        /\ net.gets[1] = 0
        /\ net.heads[1] <= 1
        /\ disk[Out(1)] = rc.before

\* C5 amended: with continue_download on, on the sequential path, against a
\* server that reports the length and honours Range requests, the first run
\* leaves the whole resource, and the second run issues no GET, leaves the file
\* byte-identical, and issues one HEAD plus at most one for each failed HEAD
C5_RerunShortCircuits ==
    (rc.run = 2 /\ SequentialResume /\ Server(1).hasCL /\ Server(1).ranges) =>
        /\ rc.before = [rc.before EXCEPT !.exists = TRUE, !.data = Resource(1)]
        /\ net.gets[1] = 0
        /\ disk[Out(1)] = rc.before
        /\ net.heads[1] <= net.faults + 1

C5_Witness ==
    /\ rc.run = 2 /\ SequentialResume /\ Server(1).hasCL /\ Server(1).ranges
    /\ Server(1).size > 0
    /\ rc.pc = "done" /\ rc.result = "ok"
    /\ net.heads[1] = 1
    /\ eng[1].result = "ok"

\* C11 as stated: the sleep after failed attempt k is 2^k seconds, so the
\* retries wait 1 s, 2 s, 4 s
C11_AsStated ==
    \A n \in 1..Len(rc.delays) : rc.delays[n] = Pow2(n - 1)

\* C11 amended: the sleep before attempt k (k >= 1, counted from 0) is 2^k
\* seconds, so the retries wait 2 s, 4 s; there is no sleep before the first
\* attempt nor after the last
C11_BackoffFromTwo ==
    /\ \A n \in 1..Len(rc.delays) : rc.delays[n] = Pow2(n)
    /\ Len(rc.delays) <= Max(cfg.retries - 1, 0)
    /\ rc.pc = "sleep" => Len(rc.delays) = rc.attempt
    /\ rc.pc = "try" => Len(rc.delays) = rc.attempt /\ rc.tries = rc.attempt + 1

C11_Witness ==
    /\ rc.pc = "try"
    /\ rc.delays = <<2, 4>>

\* C12 as stated: when all `retries` attempts have failed, download_file
\* returns the error of the last attempt
C12_AsStated ==
    (/\ rc.pc = "done"
     /\ cfg.retries >= 1
     /\ Len(rc.errs) = cfg.retries)
        => rc.result = rc.errs[Len(rc.errs)]

\* C12 amended: at most `retries` attempts run; a successful attempt ends the
\* call with success; success without a successful attempt comes only from the
\* length check after the first failed attempt (also when retries = 1); an
\* error is returned only after `retries` attempts, and it is the last one's
C12_AttemptsAndLastError ==
    /\ rc.tries <= cfg.retries
    /\ Len(rc.errs) <= rc.tries
    /\ (eng[1].pc = "done" /\ eng[1].result = "ok") =>
          /\ rc.pc \in {"try", "done"}
          /\ rc.pc = "done" => rc.result = "ok"
    /\ (rc.pc = "done" /\ rc.result = "ok" /\ eng[1].result # "ok") =>
          /\ rc.tries = 1 /\ Len(rc.errs) = 1
          /\ Exists(disk, Out(1)) /\ Server(1).hasCL
    /\ (rc.pc = "done" /\ rc.result \notin {"ok", "panic"}) =>
          /\ rc.tries = cfg.retries /\ Len(rc.errs) = cfg.retries
          /\ cfg.retries = 0 => rc.result = "unknown"
          /\ cfg.retries > 0 => rc.result = rc.errs[Len(rc.errs)]

C12_Witness ==
    /\ rc.pc = "done"
    /\ Len(rc.errs) = 2 /\ cfg.retries = 2
    /\ rc.errs[1] # rc.errs[2]
    /\ rc.result = rc.errs[2]

HeadFailed(j) == eng[j].pc = "done" /\ eng[j].result = "connect"

\* C19: the step in which the HEAD of an attempt cannot be sent ends the
\* attempt with the connection error; it sends no GET, starts no chunk task
\* and leaves every file as it was. The next thing to happen is the retry
\* loop recording that error: no request is repeated inside the attempt.
C19_HeadFailure ==
    [][/\ \A j \in DOMAIN env.jobs :
            (eng[j].pc = "head" /\ HeadFailed(j)') =>
                /\ disk' = disk
                /\ ctask' = ctask
                /\ net'.gets = net.gets
                /\ net'.heads[j] = net.heads[j] + 1
                /\ eng'[j].agets = 0
                /\ rc' = rc
       /\ (rc.pc = "try" /\ HeadFailed(1)) =>
            /\ rc'.errs = Append(rc.errs, "connect")
            /\ rc'.tries = rc.tries
            /\ rc'.pc \in {"loop", "recheck"}
            /\ disk' = disk
            /\ net' = net
            /\ eng' = eng]_vars

\* the HEAD of the second attempt failed, with an output file on disk, and
\* the retry loop has taken the error
C19_Witness ==
    /\ HeadFailed(1)
    /\ rc.tries = 2
    /\ rc.errs = <<"stream", "connect">>
    /\ Exists(disk, Out(1))
    /\ disk[Out(1)].data # <<>>

AttemptFailed == rc.pc = "try" /\ eng[1].pc = "done" /\ eng[1].result # "ok"

\* C21 as stated: after every failed attempt k < retries - 1 that leaves an
\* output file, the controller goes on to the length check
C21_AsStated ==
    [][(AttemptFailed /\ rc.attempt < cfg.retries - 1 /\ Exists(disk, Out(1)))
          => rc'.pc = "recheck"]_vars

\* C21 amended: the length check follows the first failed attempt only
\* (attempt 0, also when it is the last one), and only if the output file
\* exists; after every later failure the controller goes straight on to the
\* next iteration. The check sends one HEAD and no GET, and ends the call
\* with Ok exactly when the Content-Length answered equals the file's length.
C21_RecheckAfterFirstOnly ==
    [][/\ AttemptFailed =>
            /\ rc'.pc = "recheck" <=> (rc.attempt = 0 /\ Exists(disk, Out(1)))
            /\ rc'.pc = "recheck" => rc'.meta_len = FileLen(disk, Out(1))
            /\ rc'.pc # "recheck" => (rc'.pc = "loop" /\ rc'.attempt = rc.attempt + 1)
       /\ rc.pc = "recheck" =>
            /\ rc.attempt = 0
            /\ net'.gets = net.gets
            /\ disk' = disk
            /\ net'.heads[1] = net.heads[1] + 1
            /\ rc'.pc = "done" =>
                   /\ rc'.result = "ok"
                   /\ Server(1).hasCL
                   /\ FileLen(disk, Out(1)) = Server(1).size
            /\ (rc'.pc # "done") =>
                   /\ rc'.pc = "loop" /\ rc'.attempt = 1
                   /\ \/ net'.faults = net.faults + 1
                      \/ ~Server(1).hasCL
                      \/ FileLen(disk, Out(1)) # Server(1).size]_vars

\* the second attempt of three has failed and left an output file of the
\* resource's length; the controller sleeps without having checked it
C21_Witness ==
    /\ rc.pc = "sleep"
    /\ rc.attempt = 2
    /\ cfg.retries = 3
    /\ Exists(disk, Out(1))
    /\ Server(1).hasCL
    /\ FileLen(disk, Out(1)) = Server(1).size

\* ------------------------------------ SpecCli: download_file of the binary

\* the status a GET is answered with: a server that honours `Range: bytes=from-`
\* answers 206 (416 when from is not inside the resource), any other GET 200
Status(j, from) ==
    IF from >= 0 /\ Server(j).ranges
    THEN IF from < Server(j).size THEN 206 ELSE 416
    ELSE 200

\* let mut start = 0; if resume && output.exists() { start = metadata.len() }
CliStart(j) == IF cfg.resume /\ Exists(disk, Out(j)) THEN FileLen(disk, Out(j)) ELSE 0

\* request.send() fails
CliSendFail(j) ==
    /\ eng[j].pc = "cli_start"
    /\ CanFail
    /\ net' = Fault(CountGet(net, j))
    /\ eng' = [eng EXCEPT ![j] = Finish([@ EXCEPT !.agets = @ + 1,
                                                  !.range_from = RangeHeader(CliStart(j))],
                                         "http")]
    /\ UNCHANGED <<planner, cfg, env, rc, orch, disk, ctask, prog>>

\* the GET is answered; the Range header goes with it only if start > 0
CliSendOk(j) ==
    /\ eng[j].pc = "cli_start"
    /\ net' = CountGet(net, j)
    /\ LET from == RangeHeader(CliStart(j))
           body == IF from >= 0 THEN RangeBody(j, from, -1) ELSE FullBody(j)
       IN  eng' = [eng EXCEPT ![j].pc = "cli_status", ![j].agets = @ + 1,
                              ![j].start_byte = CliStart(j),
                              ![j].range_from = from,
                              ![j].lo = body.lo, ![j].left = body.hi - body.lo]
    /\ UNCHANGED <<planner, cfg, env, rc, orch, disk, ctask, prog>>

\* if response.status() != 200 { return Err("Error status code: ..") }
CliStatusErr(j) ==
    /\ eng[j].pc = "cli_status"
    /\ Status(j, eng[j].range_from) # 200
    /\ eng' = [eng EXCEPT ![j] = Finish(@, "status")]
    /\ UNCHANGED <<planner, cfg, env, rc, orch, disk, ctask, prog, net>>

\* status 200: pb.set_length(start + file_size), pb.set_position(start), the
\* output is opened for append if start > 0 and created (truncated) otherwise
CliOpen(j) ==
    /\ eng[j].pc = "cli_status"
    /\ Status(j, eng[j].range_from) = 200
    /\ prog' = [prog EXCEPT ![j].len = eng[j].start_byte
                                         + (IF Server(j).hasCL THEN eng[j].left ELSE 0),
                            ![j].pos = eng[j].start_byte]
    /\ IF eng[j].start_byte > 0
       THEN IF Exists(disk, Out(j))
            THEN /\ eng' = [eng EXCEPT ![j].pc = "cli_stream",
                                       ![j].w = OpenHandle(disk, Out(j), TRUE)]
                 /\ disk' = disk
            ELSE /\ eng' = [eng EXCEPT ![j] = Finish(@, "io")]
                 /\ disk' = disk
       ELSE /\ disk' = CreateFile(disk, Out(j))
            /\ eng' = [eng EXCEPT ![j].pc = "cli_stream",
                                  ![j].w = OpenHandle(disk, Out(j), FALSE)]
    /\ UNCHANGED <<planner, cfg, env, rc, orch, ctask, net>>

\* one piece of the body: file.write_all(&chunk), pb.inc(chunk.len())
CliRecv(j) ==
    /\ eng[j].pc = "cli_stream"
    /\ eng[j].left > 0
    /\ \E n \in PieceChoices(eng[j].left, eng[j].pieces) :
         LET piece == Bytes(Url(j), eng[j].lo, eng[j].lo + n)
         IN  /\ disk' = WriteFile(disk, eng[j].w, piece)
             /\ eng' = [eng EXCEPT ![j].lo = @ + n, ![j].left = @ - n,
                                   ![j].pieces = @ + 1,
                                   ![j].downloaded = @ + n,
                                   ![j].w = Advance(@, piece)]
             /\ prog' = [prog EXCEPT ![j].pos = @ + n]
    /\ UNCHANGED <<planner, cfg, env, rc, orch, ctask, net>>

\* the stream (or a write) fails: `chunk?`
CliFail(j) ==
    /\ eng[j].pc = "cli_stream"
    /\ CanFail
    /\ net' = Fault(net)
    /\ eng' = [eng EXCEPT ![j] = Finish(@, "stream")]
    /\ UNCHANGED <<planner, cfg, env, rc, orch, disk, ctask, prog>>

\* the stream ends: Ok(())
CliEnd(j) ==
    /\ eng[j].pc = "cli_stream"
    /\ eng[j].left = 0
    /\ eng' = [eng EXCEPT ![j] = Finish(@, "ok")]
    /\ UNCHANGED <<planner, cfg, env, rc, orch, disk, ctask, prog, net>>

\* one call of the binary's download_file(client, url, output, pb, resume)
CliInit ==
    /\ planner = PlanIdle
    /\ \E r \in BOOLEAN, sv \in Servers,
          lay \in {"clean", "out_part", "out_full", "out_long"} :
         /\ cfg = [workers |-> 1, resume |-> r, min_parallel |-> 0, retries |-> 1,
                   buffer_size |-> DEFAULT_BUFFER_SIZE, maxc |-> -1, charsOk |-> TRUE]
         /\ env = [jobs |-> <<[url |-> 1, out |-> <<"a", "txt", 0>>]>>,
                   server |-> [u \in JobIds |-> IF u = 1 THEN sv ELSE DefaultServer],
                   layout |-> lay]
         /\ LayoutApplies(lay, 1)
         /\ disk = DiskOf(LayoutFiles(lay, 1))
    /\ eng = [j \in JobIds |-> IF j = 1 THEN [IdleEng EXCEPT !.pc = "cli_start"] ELSE IdleEng]
    /\ ctask = [t \in TaskIds |-> NoTask]
    /\ prog = [j \in JobIds |-> NoProg]
    /\ net = [NoNet EXCEPT !.budget = AttemptFaults]
    /\ rc = NoRetry
    /\ orch = NoBatch

CliNext ==
    \E j \in DOMAIN env.jobs :
        \/ CliSendFail(j) \/ CliSendOk(j) \/ CliStatusErr(j) \/ CliOpen(j)
        \/ CliRecv(j) \/ CliFail(j) \/ CliEnd(j)

SpecCli == CliInit /\ [][CliNext]_vars

\* the server answered the binary's ranged request with 206 Partial Content
CliPartialContent(j) ==
    /\ eng[j].range_from >= 0
    /\ Status(j, eng[j].range_from) = 206

\* C32: in the binary's download_file, resuming a whole-file transfer
\* succeeds: when the output holds e > 0 bytes and resume is on, the request
\* carries Range: bytes=e-, the server's 206 response is accepted and the
\* remaining bytes are appended to the file.
C32_AsStated ==
    \A j \in DOMAIN env.jobs :
        ( /\ cfg.resume
          /\ OutputBefore(j).exists
          /\ LenBefore(j) > 0
          /\ eng[j].pc = "done"
          /\ net.faults = 0
          /\ CliPartialContent(j) ) =>
            /\ eng[j].range_from = LenBefore(j)
            /\ eng[j].result = "ok"
            /\ disk[Out(j)].data = Cat(OutputBefore(j).data, RestBody(j, LenBefore(j)))

\* the first attempt failed inside merge_parts, after the output had been
\* created and set to total_size, and the length check that followed returned Ok
AcceptedAfterMergeFailure ==
    /\ rc.pc = "done"
    /\ rc.result = "ok"
    /\ rc.errs = <<"io">>
    /\ rc.lost >= 0

\* C33: whenever Downloader::download_file returns success the output file
\* exists and its content is the complete remote resource, also when the
\* first attempt failed inside merge_parts after the output was created and
\* set to total_size and the length check after the failure then ran.
C33_AsStated ==
    /\ (rc.pc = "done" /\ rc.result = "ok") =>
            /\ Exists(disk, Out(1))
            /\ disk[Out(1)].data = Resource(1)
    /\ AcceptedAfterMergeFailure =>
            /\ Exists(disk, Out(1))
            /\ disk[Out(1)].data = Resource(1)

\* C37: with retries = 0 Downloader::download_file makes no attempt: it sends
\* no HEAD and no GET, touches no file, and returns the error "Unknown error".
C37_ZeroRetries ==
    cfg.retries = 0 =>
        /\ rc.tries = 0
        /\ rc.errs = <<>>
        /\ rc.delays = <<>>
        /\ net.heads[1] = 0
        /\ net.gets[1] = 0
        /\ net.faults = 0
        /\ disk = DiskOf(LayoutFiles(env.layout, 1))
        /\ eng[1] = IdleEng
        /\ \A t \in TaskIds : ctask[t] = NoTask
        /\ rc.pc \in {"loop", "done"}
        /\ rc.pc = "done" => rc.result = "unknown"

\* the call has returned with retries = 0, an output file being there
C37_Witness ==
    /\ cfg.retries = 0
    /\ rc.pc = "done"
    /\ rc.result = "unknown"
    /\ Exists(disk, Out(1))

\* ------------------------------------------------- SpecPlan: the planner

PlanSizes ==
    { u * MIN_CHUNK_SIZE + d : u \in 0..PlanUnits, d \in {-1, 0, 1, 2, 3, 5, 1000001} }
        \cap (1..(PlanUnits + 1) * MIN_CHUNK_SIZE)

PlanInit ==
    /\ \E s \in PlanSizes, w \in 1..PlanWorkers :
         planner = [pc |-> "loop", total |-> s, workers |-> w, i |-> 0, chunks |-> <<>>]
    /\ cfg = [workers |-> planner.workers, resume |-> FALSE, min_parallel |-> 0,
              retries |-> 1, buffer_size |-> DEFAULT_BUFFER_SIZE, maxc |-> -1,
              charsOk |-> TRUE]
    /\ env = [jobs |-> <<>>, server |-> [u \in JobIds |-> DefaultServer], layout |-> "clean"]
    /\ disk = [p \in Paths |-> NoFile]
    /\ eng = [j \in JobIds |-> IdleEng]
    /\ ctask = [t \in TaskIds |-> NoTask]
    /\ prog = [j \in JobIds |-> NoProg]
    /\ net = NoNet
    /\ rc = NoRetry
    /\ orch = NoBatch

\* one iteration of `for i in 0..optimal_workers`
PlanStep ==
    /\ planner.pc = "loop"
    /\ planner.i < OptimalWorkers(planner.total, planner.workers)
    /\ LET s == ChunkStart(planner.i, planner.total, planner.workers)
           e == ChunkEnd(planner.i, planner.total, planner.workers)
       IN  planner' = [planner EXCEPT
                !.i = @ + 1,
                !.chunks = IF s > e THEN @
                           ELSE Append(@, [index |-> planner.i, start |-> s, end |-> e])]
    /\ UNCHANGED <<cfg, env, disk, eng, ctask, prog, net, rc, orch>>

\* the loop is over: every handle has been pushed
PlanDone ==
    /\ planner.pc = "loop"
    /\ planner.i >= OptimalWorkers(planner.total, planner.workers)
    /\ planner' = [planner EXCEPT !.pc = "planned"]
    /\ UNCHANGED <<cfg, env, disk, eng, ctask, prog, net, rc, orch>>

PlanNext == PlanStep \/ PlanDone

SpecPlan == PlanInit /\ [][PlanNext]_vars

\* C1: for every total size S >= 1 and worker count W >= 1 the emitted chunks
\* cover [0, S) exactly once: the first starts at 0, each chunk's end + 1 is the
\* next chunk's start, the last ends at S - 1, and there are at most W chunks.
C1_PlanCoversExactlyOnce ==
    planner.pc = "planned" =>
        LET c == planner.chunks
        IN  /\ Len(c) >= 1
            /\ Len(c) <= planner.workers
            /\ c[1].start = 0
            /\ c[Len(c)].end = planner.total - 1
            /\ \A k \in 1..Len(c) : c[k].start <= c[k].end
            /\ \A k \in 1..(Len(c) - 1) : c[k].end + 1 = c[k + 1].start
            /\ c = PlannedChunks(OptimalWorkers(planner.total, planner.workers),
                                 planner.total, planner.workers)

\* a plan of several chunks whose last chunk is shorter than the others
C1_Witness ==
    /\ planner.pc = "planned"
    /\ Len(planner.chunks) >= 3
    /\ planner.chunks[Len(planner.chunks)].end - planner.chunks[Len(planner.chunks)].start
         < planner.chunks[1].end - planner.chunks[1].start

\* C31: the planner runs min(workers, max(1, total_size / MIN_CHUNK_SIZE)) loop
\* iterations (integer division), never zero; the chunk size is
\* ceil(total_size / that count); total_size >= 1 where total_size - 1 is
\* computed; and when total_size >= MIN_CHUNK_SIZE every chunk but the last
\* is at least MIN_CHUNK_SIZE bytes long.
C31_PlannerArithmetic ==
    planner.pc = "planned" =>
        LET c == planner.chunks
            n == planner.i
            quot == planner.total \div MIN_CHUNK_SIZE
            floor1 == IF quot >= 1 THEN quot ELSE 1
            size == c[1].end - c[1].start + 1
        IN  /\ n = (IF planner.workers <= floor1 THEN planner.workers ELSE floor1)
            /\ n >= 1
            /\ planner.total >= 1
            /\ Len(c) >= 1
            /\ size * n >= planner.total
            /\ (size - 1) * n < planner.total
            /\ \A k \in 1..(Len(c) - 1) : c[k].end - c[k].start + 1 = size
            /\ planner.total >= MIN_CHUNK_SIZE =>
                 \A k \in 1..(Len(c) - 1) : c[k].end - c[k].start + 1 >= MIN_CHUNK_SIZE

\* a plan for a size above MIN_CHUNK_SIZE whose last chunk is shorter than
\* MIN_CHUNK_SIZE while the others are not
C31_Witness ==
    /\ planner.pc = "planned"
    /\ planner.total >= MIN_CHUNK_SIZE
    /\ Len(planner.chunks) >= 3
    /\ planner.chunks[Len(planner.chunks)].end - planner.chunks[Len(planner.chunks)].start + 1
         < MIN_CHUNK_SIZE
    /\ planner.chunks[1].end - planner.chunks[1].start + 1 >= MIN_CHUNK_SIZE

====
